---- MODULE Spec2Model ----
(***************************************************************************)
(* Model of the in-memory storage engine of Flavor-Forge (class MemStorage *)
(* of src/server/mealdb-service.ts, lines 410-811).                        *)
(*                                                                         *)
(* Conventions                                                             *)
(*   - a JavaScript Map is a sequence of entries [k |-> key, v |-> value]  *)
(*     in insertion order (Map iterates in insertion order, set() on an    *)
(*     existing key keeps its position);                                   *)
(*   - a JavaScript object is a TLA+ record, object spread is Merge;       *)
(*   - "T | undefined" and "T | null" are sequences of length 0 or 1;      *)
(*   - a Date is the integer of its getTime(); a string that the code      *)
(*     takes apart (case conversion) is a sequence of characters;          *)
(*   - inFlight holds the calls that are suspended at an await, each with  *)
(*     its position and its local variables; a call that runs from start   *)
(*     to end in one step leaves it alone.                                 *)
(***************************************************************************)
EXTENDS Integers, Sequences, FiniteSets, TLC

VARIABLES users, recipes, ingredients, instructions, reviews, favorites,
          shoppingItems, mealPlans, activityLogs,
          userCurrentId, recipeCurrentId, ingredientCurrentId,
          instructionCurrentId, reviewCurrentId, shoppingItemCurrentId,
          mealPlanCurrentId, activityLogCurrentId,
          now, ret, inFlight

vars == <<users, recipes, ingredients, instructions, reviews, favorites,
          shoppingItems, mealPlans, activityLogs,
          userCurrentId, recipeCurrentId, ingredientCurrentId,
          instructionCurrentId, reviewCurrentId, shoppingItemCurrentId,
          mealPlanCurrentId, activityLogCurrentId, now, ret, inFlight>>

userVars == <<users, userCurrentId>>
recipeVars == <<recipes, recipeCurrentId>>
ingredientVars == <<ingredients, ingredientCurrentId>>
instructionVars == <<instructions, instructionCurrentId>>
reviewVars == <<reviews, reviewCurrentId>>
shoppingVars == <<shoppingItems, shoppingItemCurrentId>>
mealPlanVars == <<mealPlans, mealPlanCurrentId>>
activityVars == <<activityLogs, activityLogCurrentId>>

(***************************************************************************)
(* Bounds of the model.                                                    *)
(***************************************************************************)
MaxUsers == 2
MaxRecipes == 3
MaxReviews == 3
MaxRatings == 2
MaxInstructions == 4
MaxItems == 3
MaxMealPlans == 2
MaxStep == 3
DayLength == 2
MaxTime == 1
MaxIngredients == 2
MaxLogs == 3
MaxRecords == 2
MaxChildren == 4

\* ids used as foreign keys and as arguments of lookups
UserIds == 1..2
RecipeIds == 1..2

(***************************************************************************)
(* JavaScript values.                                                      *)
(***************************************************************************)
Null == <<>>
Some(v) == <<v>>

Min(S) == CHOOSE x \in S : \A y \in S : x <= y
Max(S) == CHOOSE x \in S : \A y \in S : x >= y

\* { ...a, ...b }
Merge(a, b) ==
    [f \in (DOMAIN a) \cup (DOMAIN b) |-> IF f \in DOMAIN b THEN b[f] ELSE a[f]]

\* obj.f || null, for a field holding a number (0 is falsy)
OrNullNum(obj, f) ==
    IF f \notin DOMAIN obj THEN Null
    ELSE IF obj[f] = Null THEN Null
    ELSE IF obj[f][1] = 0 THEN Null ELSE obj[f]

\* obj.f || null, for a field holding a string ("" is falsy)
OrNullStr(obj, f) ==
    IF f \notin DOMAIN obj THEN Null
    ELSE IF obj[f] = Null THEN Null
    ELSE IF obj[f][1] = "" THEN Null ELSE obj[f]

(***************************************************************************)
(* Map<K, V>                                                               *)
(***************************************************************************)
MapHas(m, k) == \E i \in 1..Len(m) : m[i].k = k

\* Map.prototype.get: <<>> is undefined
MapGet(m, k) ==
    IF MapHas(m, k)
    THEN <<m[CHOOSE i \in 1..Len(m) : m[i].k = k].v>>
    ELSE <<>>

\* a faulty set() that always appends, as an array push would
MapSetAppend(m, k, v) == Append(m, [k |-> k, v |-> v])

\* Map.prototype.set
MapSet(m, k, v) ==
    IF MapHas(m, k)
    THEN [i \in 1..Len(m) |-> IF m[i].k = k THEN [k |-> k, v |-> v] ELSE m[i]]
    ELSE Append(m, [k |-> k, v |-> v])

MapDeleteTest(e, k) == e.k # k

\* Map.prototype.delete: the map afterwards (the call returns MapHas before)
MapDelete(m, k) == SelectSeq(m, LAMBDA e : MapDeleteTest(e, k))

\* Array.from(map.values())
MapValues(m) == [i \in 1..Len(m) |-> m[i].v]

\* how often a sequence holds a value
Occurrences(s, x) == Cardinality({i \in 1..Len(s) : s[i] = x})

(***************************************************************************)
(* Array.prototype.sort with a comparator of the form key(a) - key(b).     *)
(* An element is [key, nan, v]: nan marks a key that is not a number, for  *)
(* which the subtraction is NaN and sort takes the comparison as +0.       *)
(* ECMAScript requires the sort to be stable, so for a consistent          *)
(* comparator the result does not depend on the algorithm.                 *)
(***************************************************************************)
CompareFn(a, b) == IF a.nan \/ b.nan THEN 0 ELSE a.key - b.key

InsertSorted(sorted, x) ==
    LET le == {j \in 1..Len(sorted) : CompareFn(sorted[j], x) <= 0}
        pos == IF le = {} THEN 0 ELSE Max(le)
    IN  SubSeq(sorted, 1, pos) \o <<x>> \o SubSeq(sorted, pos + 1, Len(sorted))

RECURSIVE ArraySort(_)
ArraySort(s) ==
    IF Len(s) <= 1 THEN s
    ELSE InsertSorted(ArraySort(SubSeq(s, 1, Len(s) - 1)), s[Len(s)])

Unkey(s) == [i \in 1..Len(s) |-> s[i].v]

\* a slice that takes one element too many
SliceOneMore(s, limit) == SubSeq(s, 1, IF limit + 1 < Len(s) THEN limit + 1 ELSE Len(s))

\* Array.prototype.slice(0, limit): a negative limit counts from the end
Slice(s, limit) ==
    SubSeq(s, 1, IF limit < 0 THEN (IF Len(s) + limit < 0 THEN 0 ELSE Len(s) + limit)
                 ELSE IF limit < Len(s) THEN limit ELSE Len(s))

\* what every call leaves in ret: the operation, its first two numeric
\* arguments, a boolean result (or "a record was returned") and the record
Return(op, a1, a2, ok, out) ==
    [op |-> op, a1 |-> a1, a2 |-> a2, ok |-> ok, out |-> out]

\* a call that returns without having been suspended
Returns(op, a1, a2, ok, out) ==
    /\ ret' = Return(op, a1, a2, ok, out)
    /\ UNCHANGED inFlight

(***************************************************************************)
(* constructor                                                             *)
(***************************************************************************)
Init ==
    /\ users = <<>> /\ recipes = <<>> /\ ingredients = <<>>
    /\ instructions = <<>> /\ reviews = <<>> /\ favorites = <<>>
    /\ shoppingItems = <<>> /\ mealPlans = <<>> /\ activityLogs = <<>>
    /\ userCurrentId = 1 /\ recipeCurrentId = 1 /\ ingredientCurrentId = 1
    /\ instructionCurrentId = 1 /\ reviewCurrentId = 1
    /\ shoppingItemCurrentId = 1 /\ mealPlanCurrentId = 1
    /\ activityLogCurrentId = 1
    /\ now = 0
    /\ ret = Return("new", 0, 0, TRUE, <<>>)
    /\ inFlight = <<>>

\* the clock read by new Date() advances between calls
Tick ==
    /\ now < MaxTime
    /\ now' = now + 1
    /\ UNCHANGED <<userVars, recipeVars, ingredientVars, instructionVars,
                   reviewVars, favorites, shoppingVars, mealPlanVars,
                   activityVars, ret, inFlight>>

(***************************************************************************)
(* String.prototype.toLowerCase / toUpperCase on a sequence of characters. *)
(* The alphabet is a, b, s, their capitals, and U+00DF (sharp s), whose    *)
(* upper case is the two characters SS and which has no single capital.    *)
(***************************************************************************)
SharpS == "U+00DF"

LowerChar(c) ==
    CASE c = "A" -> "a"
      [] c = "B" -> "b"
      [] c = "S" -> "s"
      [] OTHER -> c

UpperChar(c) ==
    CASE c = "a" -> <<"A">>
      [] c = "b" -> <<"B">>
      [] c = "s" -> <<"S">>
      [] c = SharpS -> <<"S", "S">>
      [] OTHER -> <<c>>

toLowerCase(str) == [i \in 1..Len(str) |-> LowerChar(str[i])]

RECURSIVE toUpperCase(_)
toUpperCase(str) ==
    IF str = <<>> THEN <<>>
    ELSE UpperChar(Head(str)) \o toUpperCase(Tail(str))

(***************************************************************************)
(* User methods                                                            *)
(***************************************************************************)
Usernames == {<<"a", "b">>, <<"A", "b">>, <<SharpS>>}
Emails == {<<"a">>, <<"A">>}

\* InsertUser: bio and avatarUrl are optional
InsertUsers ==
    {[username |-> u, email |-> e, name |-> "n", password |-> "p"] :
        u \in Usernames, e \in Emails}
    \cup {[username |-> <<"b">>, email |-> <<"s">>, name |-> "n",
           password |-> "p", bio |-> Some("")]}

\* the bodies PUT /api/profile passes on (password removed, nothing else checked)
UserUpdates ==
    {[username |-> u] : u \in Usernames}
    \cup {[email |-> <<"A">>, bio |-> Some("bio")]}
    \cup {[id |-> k] : k \in 1..MaxUsers}

getUser(id) == MapGet(users, id)

\* Array.prototype.find: the first element that satisfies the test
getUserByUsername(username) ==
    LET all == MapValues(users)
        hit == {i \in 1..Len(all) :
                  toLowerCase(all[i].username) = toLowerCase(username)}
    IN  IF hit = {} THEN <<>> ELSE <<all[Min(hit)]>>

getUserByEmail(email) ==
    LET all == MapValues(users)
        hit == {i \in 1..Len(all) :
                  toLowerCase(all[i].email) = toLowerCase(email)}
    IN  IF hit = {} THEN <<>> ELSE <<all[Min(hit)]>>

createUser(insertUser) ==
    LET id == userCurrentId
        user == Merge(insertUser,
                      [id |-> id, createdAt |-> now,
                       bio |-> OrNullStr(insertUser, "bio"),
                       avatarUrl |-> OrNullStr(insertUser, "avatarUrl")])
    IN  /\ userCurrentId <= MaxUsers
        /\ userCurrentId' = userCurrentId + 1
        /\ users' = MapSet(users, id, user)
        /\ Returns("createUser", id, 0, TRUE, <<user>>)
        /\ UNCHANGED <<recipeVars, ingredientVars, instructionVars, reviewVars,
                       favorites, shoppingVars, mealPlanVars, activityVars, now>>

updateUser(id, userUpdate) ==
    LET existingUser == MapGet(users, id)
    IN  IF existingUser = <<>>
        THEN /\ Returns("updateUser", id, 0, FALSE, <<>>)
             /\ UNCHANGED <<userVars, recipeVars, ingredientVars,
                            instructionVars, reviewVars, favorites,
                            shoppingVars, mealPlanVars, activityVars, now>>
        ELSE LET updatedUser == Merge(existingUser[1], userUpdate)
             IN  /\ users' = MapSet(users, id, updatedUser)
                 /\ Returns("updateUser", id, 0, TRUE, <<updatedUser>>)
                 /\ UNCHANGED <<userCurrentId, recipeVars, ingredientVars,
                                instructionVars, reviewVars, favorites,
                                shoppingVars, mealPlanVars, activityVars, now>>

CreateUser == \E u \in InsertUsers : createUser(u)
UpdateUser == \E id \in 1..MaxUsers, u \in UserUpdates : updateUser(id, u)

NextUsers == CreateUser \/ UpdateUser

SpecUsers == Init /\ [][NextUsers]_vars

(***************************************************************************)
(* Claims about users                                                      *)
(***************************************************************************)

\* C4: for every stored user U, getUserByUsername of U.username in upper
\* case returns U itself, not another user and not undefined.
C4_UpperCaseLookupReturnsUser ==
    \A i \in 1..Len(users) :
        getUserByUsername(toUpperCase(users[i].v.username)) = <<users[i].v>>

C5_NoDuplicateUsers ==
    \A i, j \in 1..Len(users) :
        i # j =>
            /\ toLowerCase(users[i].v.username) # toLowerCase(users[j].v.username)
            /\ toLowerCase(users[i].v.email) # toLowerCase(users[j].v.email)

C5_TakenIsRejected ==
    \A u \in InsertUsers :
        (/\ \/ getUserByUsername(u.username) # <<>>
            \/ getUserByEmail(u.email) # <<>>
         /\ createUser(u))
        => (users' = users /\ ~ret'.ok)

\* C5: createUser with a username or email already taken (ignoring case)
\* fails and leaves the users unchanged, so no two stored users ever have
\* usernames or emails that are equal ignoring case.
C5_CreateUserRejectsTaken ==
    []C5_NoDuplicateUsers /\ [][C5_TakenIsRejected]_vars

(***************************************************************************)
(* Review methods                                                          *)
(***************************************************************************)
Ratings == 1..5

InsertReviews ==
    {[userId |-> u, recipeId |-> r, rating |-> x, comment |-> "c"] :
        u \in {1}, r \in RecipeIds, x \in Ratings}

\* Partial<InsertReview>
ReviewUpdates ==
    {[rating |-> x] : x \in Ratings}
    \cup {[recipeId |-> r] : r \in RecipeIds}

\* Array.prototype.filter on a field
FilterBy(list, f, x) == SelectSeq(list, LAMBDA e : e[f] = x)

\* sort((a, b) => a[f] - b[f])
SortAscending(list, f) ==
    Unkey(ArraySort([i \in 1..Len(list) |->
                        [key |-> list[i][f], nan |-> FALSE, v |-> list[i]]]))

\* sort((a, b) => b[f] - a[f])
SortDescending(list, f) ==
    Unkey(ArraySort([i \in 1..Len(list) |->
                        [key |-> 0 - list[i][f], nan |-> FALSE, v |-> list[i]]]))

\* the body of getReviewsByRecipe, on a given content of this.reviews
ReviewsByRecipeOf(stored, recipeId) ==
    SortDescending(FilterBy(MapValues(stored), "recipeId", recipeId), "createdAt")

getReviewsByRecipe(recipeId) == ReviewsByRecipeOf(reviews, recipeId)

\* the body of getReviewsByUser, on a given content of this.reviews
ReviewsByUserOf(stored, userId) ==
    SortDescending(FilterBy(MapValues(stored), "userId", userId), "createdAt")

getReviewsByUser(userId) == ReviewsByUserOf(reviews, userId)

\* a create that takes the number of stored reviews plus one as the id
createReviewReusingIds(insertReview) ==
    LET id == Len(reviews) + 1
        review == Merge(insertReview, [id |-> id, createdAt |-> now])
    IN  /\ reviewCurrentId <= MaxReviews
        /\ reviewCurrentId' = reviewCurrentId + 1
        /\ reviews' = MapSet(reviews, id, review)
        /\ Returns("createReview", id, 0, TRUE, <<review>>)
        /\ UNCHANGED <<userVars, recipeVars, ingredientVars, instructionVars,
                       favorites, shoppingVars, mealPlanVars, activityVars, now>>

createReview(insertReview) ==
    LET id == reviewCurrentId
        review == Merge(insertReview, [id |-> id, createdAt |-> now])
    IN  /\ reviewCurrentId <= MaxReviews
        /\ reviewCurrentId' = reviewCurrentId + 1
        /\ reviews' = MapSet(reviews, id, review)
        /\ Returns("createReview", id, 0, TRUE, <<review>>)
        /\ UNCHANGED <<userVars, recipeVars, ingredientVars, instructionVars,
                       favorites, shoppingVars, mealPlanVars, activityVars, now>>

updateReview(id, reviewUpdate) ==
    LET existingReview == MapGet(reviews, id)
    IN  IF existingReview = <<>>
        THEN /\ Returns("updateReview", id, 0, FALSE, <<>>)
             /\ UNCHANGED <<userVars, recipeVars, ingredientVars,
                            instructionVars, reviewVars, favorites,
                            shoppingVars, mealPlanVars, activityVars, now>>
        ELSE LET updatedReview == Merge(existingReview[1], reviewUpdate)
             IN  /\ reviews' = MapSet(reviews, id, updatedReview)
                 /\ Returns("updateReview", id, 0, TRUE, <<updatedReview>>)
                 /\ UNCHANGED <<reviewCurrentId, userVars, recipeVars,
                                ingredientVars, instructionVars, favorites,
                                shoppingVars, mealPlanVars, activityVars, now>>

deleteReview(id) ==
    /\ reviews' = MapDelete(reviews, id)
    /\ Returns("deleteReview", id, 0, MapHas(reviews, id), <<>>)
    /\ UNCHANGED <<reviewCurrentId, userVars, recipeVars, ingredientVars,
                   instructionVars, favorites, shoppingVars, mealPlanVars,
                   activityVars, now>>

\* reviews.reduce((total, review) => total + review.rating, 0)
RECURSIVE SumRatings(_)
SumRatings(list) ==
    IF list = <<>> THEN 0
    ELSE SumRatings(SubSeq(list, 1, Len(list) - 1)) + list[Len(list)].rating

\* a toFixed that cuts the digits off instead of rounding
toFixed1Truncating(sum, n) ==
    LET q == (10 * sum) \div n
    IN  [whole |-> q \div 10, frac |-> q % 10]

\* (sum / n).toFixed(1) for sum >= 0, n > 0: the decimal string "whole.frac"
\* nearest to the quotient, the larger one when two are equally near.  The
\* quotient is a double: a tie k/20 with k odd is a double (and then exact)
\* only when it is a multiple of 1/4, which is every tie of fewer than 20
\* ratings.
toFixed1(sum, n) ==
    LET q == (20 * sum + n) \div (2 * n)
    IN  [whole |-> q \div 10, frac |-> q % 10]

\* parseFloat of "whole.frac": the number, counted in tenths
parseFloat(str) == 10 * str.whole + str.frac

\* null is <<>>; a number is <<tenths>>
\* the body of getAverageRating, on a given content of this.reviews
AverageRatingOf(stored, recipeId) ==
    LET list == ReviewsByRecipeOf(stored, recipeId)
    IN  IF Len(list) = 0 THEN Null
        ELSE Some(parseFloat(toFixed1(SumRatings(list), Len(list))))

getAverageRating(recipeId) == AverageRatingOf(reviews, recipeId)

CreateReview == \E r \in InsertReviews : createReview(r)
UpdateReview ==
    \E id \in 1..MaxReviews, u \in ReviewUpdates : updateReview(id, u)
DeleteReview == \E id \in 1..MaxReviews : deleteReview(id)

NextReviews == CreateReview \/ UpdateReview \/ DeleteReview

SpecReviews == Init /\ [][NextReviews]_vars

(***************************************************************************)
(* Claims about reviews                                                    *)
(***************************************************************************)
\* the entries of reviews stored for a recipe
ReviewsOf(recipeId) == {i \in 1..Len(reviews) : reviews[i].v.recipeId = recipeId}

RECURSIVE SumOver(_)
SumOver(S) ==
    IF S = {} THEN 0
    ELSE LET i == CHOOSE j \in S : TRUE
         IN  reviews[i].v.rating + SumOver(S \ {i})

\* C1: after any createReview / updateReview / deleteReview calls,
\* getAverageRating(recipeId) is null when no stored review has that
\* recipeId, and otherwise is a number of one decimal place that is nearest
\* to the mean of the ratings of exactly the stored reviews of the recipe
\* (it differs from the mean by at most 0.05).
C1_AverageIsRoundedMean ==
    \A r \in RecipeIds \cup {3} :
        LET S == ReviewsOf(r)
            n == Cardinality(S)
            avg == getAverageRating(r)
        IN  IF n = 0 THEN avg = Null
            ELSE /\ Len(avg) = 1
                 /\ 2 * (10 * SumOver(S) - avg[1] * n) <= n
                 /\ 2 * (avg[1] * n - 10 * SumOver(S)) <= n

\* ratings 4 and 5 left for recipe 1 after an update or a delete: 4.5
C1_Witness ==
    /\ ret.op \in {"updateReview", "deleteReview"}
    /\ Cardinality(ReviewsOf(1)) = 2
    /\ {reviews[i].v.rating : i \in ReviewsOf(1)} = {4, 5}
    /\ getAverageRating(1) = Some(45)

(***************************************************************************)
(* Favorites methods: Map<string, Favorite> keyed by `${userId}-${recipeId}`*)
(***************************************************************************)
\* ids of one and of two digits, so that the keys "1-12" and "11-2" differ
\* only by the place of the separator
FavUserIds == {1, 11}
FavRecipeIds == {2, 12}

InsertFavorites == {[userId |-> u, recipeId |-> r] : u \in FavUserIds, r \in FavRecipeIds}

FavoriteKey(userId, recipeId) == ToString(userId) \o "-" \o ToString(recipeId)

isFavorite(userId, recipeId) == MapHas(favorites, FavoriteKey(userId, recipeId))

addFavorite(insertFavorite) ==
    LET key == FavoriteKey(insertFavorite.userId, insertFavorite.recipeId)
        favorite == Merge(insertFavorite, [createdAt |-> now])
    IN  /\ favorites' = MapSet(favorites, key, favorite)
        /\ Returns("addFavorite", insertFavorite.userId,
                         insertFavorite.recipeId, TRUE, <<favorite>>)
        /\ UNCHANGED <<userVars, recipeVars, ingredientVars, instructionVars,
                       reviewVars, shoppingVars, mealPlanVars, activityVars, now>>

\* a removeFavorite that builds its key from the arguments in the wrong order
removeFavoriteSwapped(userId, recipeId) ==
    LET key == FavoriteKey(recipeId, userId)
    IN  /\ favorites' = MapDelete(favorites, key)
        /\ Returns("removeFavorite", userId, recipeId,
                         MapHas(favorites, key), <<>>)
        /\ UNCHANGED <<userVars, recipeVars, ingredientVars, instructionVars,
                       reviewVars, shoppingVars, mealPlanVars, activityVars, now>>

removeFavorite(userId, recipeId) ==
    LET key == FavoriteKey(userId, recipeId)
    IN  /\ favorites' = MapDelete(favorites, key)
        /\ Returns("removeFavorite", userId, recipeId,
                         MapHas(favorites, key), <<>>)
        /\ UNCHANGED <<userVars, recipeVars, ingredientVars, instructionVars,
                       reviewVars, shoppingVars, mealPlanVars, activityVars, now>>

AddFavorite == \E f \in InsertFavorites : addFavorite(f)
RemoveFavorite == \E u \in FavUserIds, r \in FavRecipeIds : removeFavorite(u, r)

NextFavorites == AddFavorite \/ RemoveFavorite \/ Tick

SpecFavorites == Init /\ [][NextFavorites]_vars

(***************************************************************************)
(* Claims about favorites                                                  *)
(***************************************************************************)
\* a step that leaves the clock alone is a call, and ret' tells which
C2_Step ==
    LET key == FavoriteKey(ret'.a1, ret'.a2)
    IN  now' = now =>
        /\ ret'.op = "addFavorite" => MapHas(favorites', key)
        /\ ret'.op = "removeFavorite" => ~MapHas(favorites', key)
        /\ (/\ ret.op = "removeFavorite" /\ ret'.op = "removeFavorite"
            /\ ret'.a1 = ret.a1 /\ ret'.a2 = ret.a2)
           => /\ ~ret'.ok
              /\ UNCHANGED <<favorites, userVars, recipeVars, ingredientVars,
                             instructionVars, reviewVars, shoppingVars,
                             mealPlanVars, activityVars>>

\* C2: isFavorite(u, r) is true right after addFavorite(u, r) and false
\* right after removeFavorite(u, r); a removeFavorite(u, r) that follows a
\* removeFavorite(u, r) returns false and changes nothing in the store.
C2_FavoriteAddRemove == [][C2_Step]_vars

\* a removeFavorite that found nothing to remove, with other favorites stored
C2_Witness ==
    /\ ret.op = "removeFavorite" /\ ~ret.ok
    /\ ~isFavorite(ret.a1, ret.a2)
    /\ Len(favorites) >= 2

FavoritesOf(userId, recipeId) ==
    {i \in 1..Len(favorites) :
        favorites[i].v.userId = userId /\ favorites[i].v.recipeId = recipeId}

C3_AtMostOne ==
    \A u \in FavUserIds, r \in FavRecipeIds : Cardinality(FavoritesOf(u, r)) <= 1

C3_RemoveLeavesNone ==
    (now' = now /\ ret'.op = "removeFavorite") =>
        \A i \in 1..Len(favorites') :
            ~(favorites'[i].v.userId = ret'.a1 /\ favorites'[i].v.recipeId = ret'.a2)

\* C3: in every reachable state there is at most one favorite record for
\* each (userId, recipeId) pair, however often addFavorite was called for
\* it, and one removeFavorite(u, r) leaves no record of the pair.
C3_OneFavoritePerPair == []C3_AtMostOne /\ [][C3_RemoveLeavesNone]_vars

\* the first entry of the map carries a later createdAt than the second:
\* its pair was added again after the second pair was added
C3_Witness ==
    /\ Len(favorites) >= 2
    /\ favorites[1].v.createdAt > favorites[2].v.createdAt
    /\ C3_AtMostOne

(***************************************************************************)
(* Instruction methods                                                     *)
(***************************************************************************)
StepNumbers == 1..MaxStep

InsertInstructions ==
    {[recipeId |-> r, stepNumber |-> n, description |-> "d"] :
        r \in RecipeIds, n \in StepNumbers}

\* a getInstructionsByRecipe that forgets to sort
getInstructionsByRecipeUnsorted(recipeId) ==
    FilterBy(MapValues(instructions), "recipeId", recipeId)

\* the body of getInstructionsByRecipe, on a given content of
\* this.instructions
InstructionsByRecipeOf(stored, recipeId) ==
    SortAscending(FilterBy(MapValues(stored), "recipeId", recipeId),
                  "stepNumber")

getInstructionsByRecipe(recipeId) == InstructionsByRecipeOf(instructions, recipeId)

createInstruction(insertInstruction) ==
    LET id == instructionCurrentId
        instruction == Merge(insertInstruction, [id |-> id])
    IN  /\ instructionCurrentId <= MaxInstructions
        /\ instructionCurrentId' = instructionCurrentId + 1
        /\ instructions' = MapSet(instructions, id, instruction)
        /\ Returns("createInstruction", id, 0, TRUE, <<instruction>>)
        /\ UNCHANGED <<userVars, recipeVars, ingredientVars, reviewVars,
                       favorites, shoppingVars, mealPlanVars, activityVars, now>>

CreateInstruction == \E i \in InsertInstructions : createInstruction(i)

NextInstructions == CreateInstruction

SpecInstructions == Init /\ [][NextInstructions]_vars

(***************************************************************************)
(* Claims about instructions                                               *)
(***************************************************************************)
InstructionsOf(recipeId) ==
    {i \in 1..Len(instructions) : instructions[i].v.recipeId = recipeId}

\* the step numbers of the recipe are 1..n, each once
HasSteps1toN(recipeId) ==
    LET S == InstructionsOf(recipeId)
    IN  /\ \A i, j \in S :
              i # j => instructions[i].v.stepNumber # instructions[j].v.stepNumber
        /\ {instructions[i].v.stepNumber : i \in S} = 1..Cardinality(S)

\* C6: for a recipe whose instructions have the step numbers 1..n, inserted
\* in any order and between instructions of other recipes,
\* getInstructionsByRecipe returns exactly the instructions of the recipe,
\* strictly increasing in stepNumber.
C6_InstructionsInStepOrder ==
    \A r \in RecipeIds :
        HasSteps1toN(r) =>
            LET res == getInstructionsByRecipe(r)
                S == InstructionsOf(r)
            IN  /\ Len(res) = Cardinality(S)
                /\ {res[i] : i \in 1..Len(res)} = {instructions[i].v : i \in S}
                /\ \A i, j \in 1..Len(res) :
                      i < j => res[i].stepNumber < res[j].stepNumber

\* steps 3, 1, 2 of recipe 1 inserted in that order around a step of recipe 2
C6_Witness ==
    /\ Len(instructions) = 4
    /\ HasSteps1toN(1)
    /\ InstructionsOf(1) = {1, 3, 4}
    /\ instructions[1].v.stepNumber = 3
    /\ instructions[3].v.stepNumber = 1
    /\ getInstructionsByRecipe(1)[1].id = 3

(***************************************************************************)
(* Meal plan methods                                                       *)
(***************************************************************************)
\* two instants of one day and the first instant of the next day
PlannedDates == {0, DayLength - 1, DayLength}

MealTypes == {"breakfast", "lunch", "dinner", "snack", "brunch", "constructor"}

InsertMealPlans ==
    {[userId |-> u, recipeId |-> 1, plannedDate |-> d, mealType |-> t] :
        u \in UserIds, d \in PlannedDates, t \in MealTypes}

\* bodies of PUT /api/meal-plans/:id
MealPlanUpdates ==
    {[mealType |-> "dinner"], [plannedDate |-> DayLength, notes |-> Some("n")]}

\* date.setHours(0, 0, 0, 0); date.getTime()
StartOfDay(date) == date - (date % DayLength)

\* mealTypeOrder[mealType] on the object literal { breakfast: 1, lunch: 2,
\* dinner: 3, snack: 4 }: an own property is its number; a name that
\* Object.prototype defines is read through the prototype chain and is a
\* function; any other name is undefined.
ObjectPrototypeNames ==
    {"constructor", "toString", "valueOf", "hasOwnProperty", "isPrototypeOf",
     "propertyIsEnumerable", "toLocaleString"}

mealTypeOrder(mealType) ==
    CASE mealType = "breakfast" -> [type |-> "number", n |-> 1]
      [] mealType = "lunch" -> [type |-> "number", n |-> 2]
      [] mealType = "dinner" -> [type |-> "number", n |-> 3]
      [] mealType = "snack" -> [type |-> "number", n |-> 4]
      [] mealType \in ObjectPrototypeNames -> [type |-> "function", n |-> 0]
      [] OTHER -> [type |-> "undefined", n |-> 0]

\* (mealTypeOrder[mealType] || 99) as an operand of the subtraction: a
\* function is truthy and is not a number, so the difference is NaN
MealTypeKey(mealType) ==
    LET x == mealTypeOrder(mealType)
    IN  CASE x.type = "number" -> [key |-> x.n, nan |-> FALSE]
          [] x.type = "undefined" -> [key |-> 99, nan |-> FALSE]
          [] OTHER -> [key |-> 0, nan |-> TRUE]

\* the body of getMealPlans, on a given content of this.mealPlans
MealPlansOf(stored, userId) ==
    SortAscending(FilterBy(MapValues(stored), "userId", userId), "plannedDate")

getMealPlans(userId) == MealPlansOf(mealPlans, userId)

getMealPlansByDate(userId, date) ==
    LET targetDate == StartOfDay(date)
        found == SelectSeq(MapValues(mealPlans),
                           LAMBDA plan : /\ plan.userId = userId
                                         /\ StartOfDay(plan.plannedDate) = targetDate)
    IN  Unkey(ArraySort([i \in 1..Len(found) |->
                            [key |-> MealTypeKey(found[i].mealType).key,
                             nan |-> MealTypeKey(found[i].mealType).nan,
                             v |-> found[i]]]))

createMealPlan(insertMealPlan) ==
    LET id == mealPlanCurrentId
        mealPlan == Merge(insertMealPlan,
                          [id |-> id, createdAt |-> now,
                           notes |-> OrNullStr(insertMealPlan, "notes")])
    IN  /\ mealPlanCurrentId <= MaxMealPlans
        /\ mealPlanCurrentId' = mealPlanCurrentId + 1
        /\ mealPlans' = MapSet(mealPlans, id, mealPlan)
        /\ Returns("createMealPlan", id, 0, TRUE, <<mealPlan>>)
        /\ UNCHANGED <<userVars, recipeVars, ingredientVars, instructionVars,
                       reviewVars, favorites, shoppingVars, activityVars, now>>

\* an update that stores the argument in place of the record
updateMealPlanReplacing(id, mealPlanUpdate) ==
    LET existingMealPlan == MapGet(mealPlans, id)
    IN  IF existingMealPlan = <<>>
        THEN /\ Returns("updateMealPlan", id, 0, FALSE, <<>>)
             /\ UNCHANGED <<userVars, recipeVars, ingredientVars,
                            instructionVars, reviewVars, favorites,
                            shoppingVars, mealPlanVars, activityVars, now>>
        ELSE LET updatedMealPlan == mealPlanUpdate
             IN  /\ mealPlans' = MapSet(mealPlans, id, updatedMealPlan)
                 /\ Returns("updateMealPlan", id, 0, TRUE, <<updatedMealPlan>>)
                 /\ UNCHANGED <<mealPlanCurrentId, userVars, recipeVars,
                                ingredientVars, instructionVars, reviewVars,
                                favorites, shoppingVars, activityVars, now>>

updateMealPlan(id, mealPlanUpdate) ==
    LET existingMealPlan == MapGet(mealPlans, id)
    IN  IF existingMealPlan = <<>>
        THEN /\ Returns("updateMealPlan", id, 0, FALSE, <<>>)
             /\ UNCHANGED <<userVars, recipeVars, ingredientVars,
                            instructionVars, reviewVars, favorites,
                            shoppingVars, mealPlanVars, activityVars, now>>
        ELSE LET updatedMealPlan == Merge(existingMealPlan[1], mealPlanUpdate)
             IN  /\ mealPlans' = MapSet(mealPlans, id, updatedMealPlan)
                 /\ Returns("updateMealPlan", id, 0, TRUE, <<updatedMealPlan>>)
                 /\ UNCHANGED <<mealPlanCurrentId, userVars, recipeVars,
                                ingredientVars, instructionVars, reviewVars,
                                favorites, shoppingVars, activityVars, now>>

deleteMealPlan(id) ==
    /\ mealPlans' = MapDelete(mealPlans, id)
    /\ Returns("deleteMealPlan", id, 0, MapHas(mealPlans, id), <<>>)
    /\ UNCHANGED <<mealPlanCurrentId, userVars, recipeVars, ingredientVars,
                   instructionVars, reviewVars, favorites, shoppingVars,
                   activityVars, now>>

CreateMealPlan == \E m \in InsertMealPlans : createMealPlan(m)
UpdateMealPlan ==
    \E id \in 1..MaxMealPlans, u \in MealPlanUpdates : updateMealPlan(id, u)
DeleteMealPlan == \E id \in 1..MaxMealPlans : deleteMealPlan(id)

NextMealPlans == CreateMealPlan \/ UpdateMealPlan \/ DeleteMealPlan

SpecMealPlans == Init /\ [][NextMealPlans]_vars

(***************************************************************************)
(* Claims about meal plans                                                 *)
(***************************************************************************)
\* breakfast < lunch < dinner < snack < every other meal type
MealRank(mealType) ==
    CASE mealType = "breakfast" -> 1
      [] mealType = "lunch" -> 2
      [] mealType = "dinner" -> 3
      [] mealType = "snack" -> 4
      [] OTHER -> 5

\* C7: getMealPlansByDate(u, d) returns exactly the meal plans of user u
\* planned on the calendar day of d, every breakfast plan before every lunch
\* plan, before every dinner plan, before every snack plan, and the plans of
\* any other meal type last, whatever the order of creation.
C7_MealPlansByDateOrdered ==
    \A u \in UserIds, d \in PlannedDates :
        LET res == getMealPlansByDate(u, d)
            S == {i \in 1..Len(mealPlans) :
                    /\ mealPlans[i].v.userId = u
                    /\ mealPlans[i].v.plannedDate \div DayLength = d \div DayLength}
        IN  /\ Len(res) = Cardinality(S)
            /\ {res[i] : i \in 1..Len(res)} = {mealPlans[i].v : i \in S}
            /\ \A i, j \in 1..Len(res) :
                  i < j => MealRank(res[i].mealType) <= MealRank(res[j].mealType)

(***************************************************************************)
(* Recipe methods                                                          *)
(***************************************************************************)
\* obj.f || null, for a field holding an array (every array is truthy)
OrNullArr(obj, f) ==
    IF f \notin DOMAIN obj THEN Null
    ELSE IF obj[f] = Null THEN Null ELSE obj[f]

\* InsertRecipe: the second one gives the optional fields, calories as 0
InsertRecipes ==
    {[title |-> "Soup", description |-> "d", imageUrl |-> "i", prepTime |-> 5,
      cookTime |-> 10, difficulty |-> "Easy", userId |-> 1],
     [title |-> "Stew", description |-> "d", imageUrl |-> "i", prepTime |-> 5,
      cookTime |-> 10, difficulty |-> "Hard", userId |-> 2,
      calories |-> Some(0), servings |-> Some(4), source |-> Some(""),
      tags |-> Some(<<"Vegan", "Quick">>)]}

\* Partial<InsertRecipe>: the cached Recipe.rating, in tenths
RecipeUpdates == {[rating |-> Some(50)]}

getRecipe(id) == MapGet(recipes, id)

getRecipes == MapValues(recipes)

getRecipesByUser(userId) == FilterBy(MapValues(recipes), "userId", userId)

\* avgRating || 0, in tenths: null and 0 both give 0
RecipeRating(id) ==
    LET avgRating == getAverageRating(id)
    IN  IF avgRating = Null THEN 0
        ELSE IF avgRating[1] = 0 THEN 0 ELSE avgRating[1]

\* a getTopRecipes that ranks by the cached Recipe.rating field
getTopRecipesByCachedRating(limit) ==
    LET list == MapValues(recipes)
    IN  Slice(Unkey(ArraySort([i \in 1..Len(list) |->
                [key |-> 0 - (IF list[i].rating = Null THEN 0 ELSE list[i].rating[1]),
                 nan |-> FALSE, v |-> list[i]]])),
              limit)

\* recipeRatings maps recipe.id to RecipeRating(recipe.id); the comparator is
\* (recipeRatings.get(b.id) || 0) - (recipeRatings.get(a.id) || 0)
getTopRecipes(limit) ==
    LET list == MapValues(recipes)
    IN  Slice(Unkey(ArraySort([i \in 1..Len(list) |->
                [key |-> 0 - RecipeRating(list[i].id), nan |-> FALSE,
                 v |-> list[i]]])),
              limit)

getRecentRecipes(limit) == Slice(SortDescending(MapValues(recipes), "createdAt"), limit)

\* the record createRecipe stores under a given id
StoredRecipe(insertRecipe, id) ==
    Merge(insertRecipe,
          [id |-> id, createdAt |-> now,
           calories |-> OrNullNum(insertRecipe, "calories"),
           protein |-> OrNullNum(insertRecipe, "protein"),
           fats |-> OrNullNum(insertRecipe, "fats"),
           carbs |-> OrNullNum(insertRecipe, "carbs"),
           servings |-> OrNullNum(insertRecipe, "servings"),
           rating |-> OrNullNum(insertRecipe, "rating"),
           source |-> OrNullStr(insertRecipe, "source"),
           cookingTips |-> OrNullStr(insertRecipe, "cookingTips"),
           tags |-> OrNullArr(insertRecipe, "tags")])

createRecipe(insertRecipe) ==
    LET id == recipeCurrentId
        recipe == StoredRecipe(insertRecipe, id)
    IN  /\ recipeCurrentId <= MaxRecipes
        /\ recipeCurrentId' = recipeCurrentId + 1
        /\ recipes' = MapSet(recipes, id, recipe)
        /\ Returns("createRecipe", id, 0, TRUE, <<recipe>>)
        /\ UNCHANGED <<userVars, ingredientVars, instructionVars, reviewVars,
                       favorites, shoppingVars, mealPlanVars, activityVars, now>>

\* an update that stores the update under the id when the id is absent
updateRecipeUpserting(id, recipeUpdate) ==
    LET existingRecipe == MapGet(recipes, id)
        updatedRecipe == IF existingRecipe = <<>> THEN recipeUpdate
                         ELSE Merge(existingRecipe[1], recipeUpdate)
    IN  /\ recipes' = MapSet(recipes, id, updatedRecipe)
        /\ Returns("updateRecipe", id, 0, TRUE, <<updatedRecipe>>)
        /\ UNCHANGED <<recipeCurrentId, userVars, ingredientVars,
                       instructionVars, reviewVars, favorites, shoppingVars,
                       mealPlanVars, activityVars, now>>

updateRecipe(id, recipeUpdate) ==
    LET existingRecipe == MapGet(recipes, id)
    IN  IF existingRecipe = <<>>
        THEN /\ Returns("updateRecipe", id, 0, FALSE, <<>>)
             /\ UNCHANGED <<userVars, recipeVars, ingredientVars,
                            instructionVars, reviewVars, favorites,
                            shoppingVars, mealPlanVars, activityVars, now>>
        ELSE LET updatedRecipe == Merge(existingRecipe[1], recipeUpdate)
             IN  /\ recipes' = MapSet(recipes, id, updatedRecipe)
                 /\ Returns("updateRecipe", id, 0, TRUE, <<updatedRecipe>>)
                 /\ UNCHANGED <<recipeCurrentId, userVars, ingredientVars,
                                instructionVars, reviewVars, favorites,
                                shoppingVars, mealPlanVars, activityVars, now>>

\* a delete that also removes the reviews of the recipe
deleteRecipeCascading(id) ==
    /\ recipes' = MapDelete(recipes, id)
    /\ reviews' = SelectSeq(reviews, LAMBDA e : e.v.recipeId # id)
    /\ Returns("deleteRecipe", id, 0, MapHas(recipes, id), <<>>)
    /\ UNCHANGED <<recipeCurrentId, reviewCurrentId, userVars, ingredientVars,
                   instructionVars, favorites, shoppingVars, mealPlanVars,
                   activityVars, now>>

deleteRecipe(id) ==
    /\ recipes' = MapDelete(recipes, id)
    /\ Returns("deleteRecipe", id, 0, MapHas(recipes, id), <<>>)
    /\ UNCHANGED <<recipeCurrentId, userVars, ingredientVars, instructionVars,
                   reviewVars, favorites, shoppingVars, mealPlanVars,
                   activityVars, now>>

CreateRecipe == \E r \in InsertRecipes : createRecipe(r)
UpdateRecipe == \E id \in 1..MaxRecipes, u \in RecipeUpdates : updateRecipe(id, u)
DeleteRecipe == \E id \in 1..MaxRecipes : deleteRecipe(id)

\* one kind of recipe, and a few reviews of rating 4 or 5
AddRecipe ==
    createRecipe([title |-> "Soup", description |-> "d", imageUrl |-> "i",
                  prepTime |-> 5, cookTime |-> 10, difficulty |-> "Easy",
                  userId |-> 1])

RateRecipe ==
    \E r \in RecipeIds, x \in {4, 5} :
        /\ reviewCurrentId <= MaxRatings
        /\ createReview([userId |-> 1, recipeId |-> r, rating |-> x, comment |-> "c"])

NextTop == AddRecipe \/ UpdateRecipe \/ DeleteRecipe \/ RateRecipe

SpecTop == Init /\ [][NextTop]_vars

(***************************************************************************)
(* Claims about getTopRecipes                                              *)
(***************************************************************************)
Limits == 0..(MaxRecipes + 1)

\* the place of a stored recipe in insertion order
PlaceOf(recipe) == CHOOSE i \in 1..Len(recipes) : recipes[i].v = recipe

\* the score the claim ranks by: getAverageRating, 0 without reviews
ScoreOf(recipe) ==
    IF getAverageRating(recipe.id) = Null THEN 0 ELSE getAverageRating(recipe.id)[1]

\* a ranks before b: higher score, or equal score and inserted earlier
RanksBefore(a, b) ==
    \/ ScoreOf(a) > ScoreOf(b)
    \/ ScoreOf(a) = ScoreOf(b) /\ PlaceOf(a) < PlaceOf(b)

\* C8: getTopRecipes(limit) is the first `limit` recipes of all stored
\* recipes in descending order of getAverageRating (0 without reviews),
\* recipes of equal average in insertion order.
C8_TopRecipesRanked ==
    \A limit \in Limits :
        LET res == getTopRecipes(limit)
            in == {res[i] : i \in 1..Len(res)}
            all == {recipes[i].v : i \in 1..Len(recipes)}
        IN  /\ in \subseteq all
            /\ \A i, j \in 1..Len(res) : i < j => RanksBefore(res[i], res[j])
            /\ \A a \in in, b \in all \ in : RanksBefore(a, b)
            /\ Len(res) = limit \/ in = all

\* three recipes stored; the second has the best average and comes first,
\* the other two have no reviews and keep their insertion order; the first
\* carries a cached rating of 5.0 that does not count
C8_Witness ==
    /\ Len(recipes) = 3
    /\ recipes[1].v.rating = Some(50)
    /\ ScoreOf(recipes[2].v) = 45
    /\ ScoreOf(recipes[1].v) = 0 /\ ScoreOf(recipes[3].v) = 0
    /\ getTopRecipes(3) = <<recipes[2].v, recipes[1].v, recipes[3].v>>

\* C9: getTopRecipes(0) is empty; with limit above the number of stored
\* recipes every stored recipe is returned exactly once; for every
\* limit >= 0 the result has min(limit, number of recipes) elements.
C9_TopRecipesLength ==
    \A limit \in Limits :
        LET res == getTopRecipes(limit)
            n == Len(recipes)
        IN  /\ Len(res) = (IF limit < n THEN limit ELSE n)
            /\ limit = 0 => res = <<>>
            /\ limit > n =>
                  \A k \in 1..n :
                      Cardinality({i \in 1..Len(res) : res[i] = recipes[k].v}) = 1

\* two recipes stored, a limit of 3 returns both and a limit of 0 none
C9_Witness ==
    /\ Len(recipes) = 2
    /\ Len(getTopRecipes(3)) = 2
    /\ getTopRecipes(0) = <<>>
    /\ ret.op = "deleteRecipe" /\ ret.ok

(***************************************************************************)
(* Shopping list methods                                                   *)
(***************************************************************************)
\* InsertShoppingListItem: "milk" of no recipe, "eggs" of recipe 7
InsertItems ==
    {[userId |-> u, item |-> "milk"] : u \in UserIds}
    \cup {[userId |-> u, item |-> "eggs", recipeId |-> Some(7)] : u \in UserIds}

\* InsertShoppingListItem with each kind of recipeId: omitted, null, 7, and
\* 0, which insertShoppingListSchema accepts as it accepts every integer
InsertItemsOfRecipes ==
    {[userId |-> 1, item |-> "milk"],
     [userId |-> 1, item |-> "salt", recipeId |-> Null],
     [userId |-> 1, item |-> "eggs", recipeId |-> Some(7)],
     [userId |-> 1, item |-> "flour", recipeId |-> Some(0)],
     [userId |-> 2, item |-> "eggs", recipeId |-> Some(7)]}

\* bodies of PUT /api/shopping-list/:id, which the handler passes on as they
\* are: a field of the item, or the id
ItemUpdates == {[checked |-> TRUE], [id |-> 2]}

\* insertItem.checked || false
OrFalse(obj, f) == IF f \notin DOMAIN obj THEN FALSE ELSE obj[f]

\* the body of getShoppingList, on a given content of this.shoppingItems
ShoppingListOf(items, userId) ==
    SortAscending(FilterBy(MapValues(items), "userId", userId), "createdAt")

getShoppingList(userId) == ShoppingListOf(shoppingItems, userId)

getShoppingListItem(id) == MapGet(shoppingItems, id)

addToShoppingList(insertItem) ==
    LET id == shoppingItemCurrentId
        item == Merge(insertItem,
                      [id |-> id, createdAt |-> now,
                       recipeId |-> OrNullNum(insertItem, "recipeId"),
                       quantity |-> OrNullStr(insertItem, "quantity"),
                       unit |-> OrNullStr(insertItem, "unit"),
                       checked |-> OrFalse(insertItem, "checked"),
                       spoonacularId |-> OrNullNum(insertItem, "spoonacularId")])
    IN  /\ shoppingItemCurrentId <= MaxItems
        /\ shoppingItemCurrentId' = shoppingItemCurrentId + 1
        /\ shoppingItems' = MapSet(shoppingItems, id, item)
        /\ Returns("addToShoppingList", id, 0, TRUE, <<item>>)
        /\ UNCHANGED <<userVars, recipeVars, ingredientVars, instructionVars,
                       reviewVars, favorites, mealPlanVars, activityVars, now>>

updateShoppingListItem(id, itemUpdate) ==
    LET existingItem == MapGet(shoppingItems, id)
    IN  IF existingItem = <<>>
        THEN /\ Returns("updateShoppingListItem", id, 0, FALSE, <<>>)
             /\ UNCHANGED <<userVars, recipeVars, ingredientVars,
                            instructionVars, reviewVars, favorites,
                            shoppingVars, mealPlanVars, activityVars, now>>
        ELSE LET updatedItem == Merge(existingItem[1], itemUpdate)
             IN  /\ shoppingItems' = MapSet(shoppingItems, id, updatedItem)
                 /\ Returns("updateShoppingListItem", id, 0, TRUE,
                                  <<updatedItem>>)
                 /\ UNCHANGED <<shoppingItemCurrentId, userVars, recipeVars,
                                ingredientVars, instructionVars, reviewVars,
                                favorites, mealPlanVars, activityVars, now>>

deleteShoppingListItem(id) ==
    /\ shoppingItems' = MapDelete(shoppingItems, id)
    /\ Returns("deleteShoppingListItem", id, 0, MapHas(shoppingItems, id), <<>>)
    /\ UNCHANGED <<shoppingItemCurrentId, userVars, recipeVars, ingredientVars,
                   instructionVars, reviewVars, favorites, mealPlanVars,
                   activityVars, now>>

\* for (const item of userItems) this.shoppingItems.delete(item.id)
RECURSIVE DeleteEach(_, _)
DeleteEach(m, userItems) ==
    IF userItems = <<>> THEN m
    ELSE DeleteEach(MapDelete(m, Head(userItems).id), Tail(userItems))

clearShoppingList(userId) ==
    LET userItems == FilterBy(MapValues(shoppingItems), "userId", userId)
    IN  /\ shoppingItems' = DeleteEach(shoppingItems, userItems)
        /\ Returns("clearShoppingList", userId, 0, TRUE, <<>>)
        /\ UNCHANGED <<shoppingItemCurrentId, userVars, recipeVars,
                       ingredientVars, instructionVars, reviewVars, favorites,
                       mealPlanVars, activityVars, now>>

AddToShoppingList == \E i \in InsertItems : addToShoppingList(i)
UpdateShoppingListItem ==
    \E id \in 1..MaxItems, u \in ItemUpdates : updateShoppingListItem(id, u)
DeleteShoppingListItem == \E id \in 1..MaxItems : deleteShoppingListItem(id)
ClearShoppingList == \E u \in UserIds : clearShoppingList(u)

NextShopping ==
    \/ AddToShoppingList \/ UpdateShoppingListItem
    \/ DeleteShoppingListItem \/ ClearShoppingList

SpecShopping == Init /\ [][NextShopping]_vars

\* the shopping list as the shopping-list page sees it: items of every kind
\* of recipeId are added, deleted and cleared
AddItemOfRecipe == \E i \in InsertItemsOfRecipes : addToShoppingList(i)

NextGrouping == AddItemOfRecipe \/ DeleteShoppingListItem \/ ClearShoppingList

SpecGrouping == Init /\ [][NextGrouping]_vars

(***************************************************************************)
(* Claims about the shopping list                                          *)
(***************************************************************************)
ItemsNotOf(list, userId) == SelectSeq(list, LAMBDA e : e.v.userId # userId)

C10_Step ==
    (now' = now /\ ret'.op = "clearShoppingList") =>
        /\ ret'.ok
        /\ \A i \in 1..Len(shoppingItems') : shoppingItems'[i].v.userId # ret'.a1
        /\ ItemsNotOf(shoppingItems', ret'.a1) = ItemsNotOf(shoppingItems, ret'.a1)
        /\ UNCHANGED <<shoppingItemCurrentId, userVars, recipeVars,
                       ingredientVars, instructionVars, reviewVars, favorites,
                       mealPlanVars, activityVars>>

\* C10: clearShoppingList(u) returns true and removes every shopping-list
\* item whose userId is u, whatever their number, so that getShoppingList(u)
\* is empty afterwards; the items of every other user and all other
\* collections stay as they were.
C10_ClearShoppingList == [][C10_Step]_vars

(***************************************************************************)
(* Ingredient methods                                                      *)
(***************************************************************************)
\* InsertIngredient
InsertIngredients ==
    {[recipeId |-> r, name |-> "salt", quantity |-> "1"] : r \in RecipeIds}
    \cup {[recipeId |-> 1, name |-> "oil", quantity |-> "2", unit |-> Some("tbsp")]}

\* the body of getIngredientsByRecipe, on a given content of
\* this.ingredients
IngredientsByRecipeOf(stored, recipeId) ==
    FilterBy(MapValues(stored), "recipeId", recipeId)

getIngredientsByRecipe(recipeId) == IngredientsByRecipeOf(ingredients, recipeId)

createIngredient(insertIngredient) ==
    LET id == ingredientCurrentId
        ingredient == Merge(insertIngredient,
                            [id |-> id,
                             unit |-> OrNullStr(insertIngredient, "unit")])
    IN  /\ ingredientCurrentId <= MaxIngredients
        /\ ingredientCurrentId' = ingredientCurrentId + 1
        /\ ingredients' = MapSet(ingredients, id, ingredient)
        /\ Returns("createIngredient", id, 0, TRUE, <<ingredient>>)
        /\ UNCHANGED <<userVars, recipeVars, instructionVars, reviewVars,
                       favorites, shoppingVars, mealPlanVars, activityVars, now>>

CreateIngredient == \E i \in InsertIngredients : createIngredient(i)

(***************************************************************************)
(* Activity log methods                                                    *)
(***************************************************************************)
\* InsertActivityLog, as the handlers of routes.ts build it
InsertActivityLogs ==
    {[userId |-> u, action |-> "favorite", entityId |-> Some(1),
      entityType |-> Some("recipe")] : u \in UserIds}
    \cup {[userId |-> 1, action |-> "clear_shopping_list"]}

getActivityLogs(userId) ==
    SortDescending(FilterBy(MapValues(activityLogs), "userId", userId), "createdAt")

\* a log kept as a ring of MaxLogs - 1 entries: a full log drops its oldest
\* entry
createActivityLogRotating(insertLog) ==
    LET id == activityLogCurrentId
        activityLog == Merge(insertLog,
                             [id |-> id, createdAt |-> now,
                              entityId |-> OrNullNum(insertLog, "entityId"),
                              entityType |-> OrNullStr(insertLog, "entityType"),
                              details |-> OrNullStr(insertLog, "details")])
        kept == IF Len(activityLogs) >= 2 THEN Tail(activityLogs)
                ELSE activityLogs
    IN  /\ activityLogCurrentId <= MaxLogs
        /\ activityLogCurrentId' = activityLogCurrentId + 1
        /\ activityLogs' = MapSet(kept, id, activityLog)
        /\ Returns("createActivityLog", id, 0, TRUE, <<activityLog>>)
        /\ UNCHANGED <<userVars, recipeVars, ingredientVars, instructionVars,
                       reviewVars, favorites, shoppingVars, mealPlanVars, now>>

createActivityLog(insertLog) ==
    LET id == activityLogCurrentId
        activityLog == Merge(insertLog,
                             [id |-> id, createdAt |-> now,
                              entityId |-> OrNullNum(insertLog, "entityId"),
                              entityType |-> OrNullStr(insertLog, "entityType"),
                              details |-> OrNullStr(insertLog, "details")])
    IN  /\ activityLogCurrentId <= MaxLogs
        /\ activityLogCurrentId' = activityLogCurrentId + 1
        /\ activityLogs' = MapSet(activityLogs, id, activityLog)
        /\ Returns("createActivityLog", id, 0, TRUE, <<activityLog>>)
        /\ UNCHANGED <<userVars, recipeVars, ingredientVars, instructionVars,
                       reviewVars, favorites, shoppingVars, mealPlanVars, now>>

CreateActivityLog == \E l \in InsertActivityLogs : createActivityLog(l)

(***************************************************************************)
(* The whole store: every entity type with its create, get, update and     *)
(* delete methods, as far as IStorage has them.  To keep the state space   *)
(* small each create has one input and at most MaxRecords records are      *)
(* created in all.                                                         *)
(***************************************************************************)
RecordsCreated ==
    (userCurrentId - 1) + (recipeCurrentId - 1) + (ingredientCurrentId - 1)
    + (instructionCurrentId - 1) + (reviewCurrentId - 1)
    + (shoppingItemCurrentId - 1) + (mealPlanCurrentId - 1)
    + (activityLogCurrentId - 1)

\* ids given to get, update and delete: stored ones and ones never assigned
StoreIds == 1..2

StoreCreate ==
    /\ RecordsCreated < MaxRecords
    /\ \/ createUser([username |-> <<"a">>, email |-> <<"a">>, name |-> "n",
                      password |-> "p"])
       \/ AddRecipe
       \/ createIngredient([recipeId |-> 1, name |-> "salt", quantity |-> "1"])
       \/ createInstruction([recipeId |-> 1, stepNumber |-> 1,
                             description |-> "d"])
       \/ createReview([userId |-> 1, recipeId |-> 1, rating |-> 4,
                        comment |-> "c"])
       \/ addToShoppingList([userId |-> 1, item |-> "milk"])
       \/ createMealPlan([userId |-> 1, recipeId |-> 1, plannedDate |-> 0,
                          mealType |-> "lunch"])
       \/ createActivityLog([userId |-> 1, action |-> "favorite",
                             entityId |-> Some(1), entityType |-> Some("recipe")])

\* a get leaves the store alone and returns what the Map holds
StoreGet ==
    \E id \in StoreIds :
        /\ \/ Returns("getUser", id, 0, getUser(id) # <<>>, getUser(id))
           \/ Returns("getRecipe", id, 0, getRecipe(id) # <<>>, getRecipe(id))
           \/ Returns("getShoppingListItem", id, 0,
                            getShoppingListItem(id) # <<>>, getShoppingListItem(id))
        /\ UNCHANGED <<userVars, recipeVars, ingredientVars, instructionVars,
                       reviewVars, favorites, shoppingVars, mealPlanVars,
                       activityVars, now>>

\* one update argument for each entity type that has an update; those of
\* recipes and shopping-list items are the sets used before
StoreUserUpdates == {[name |-> "m"]}
StoreReviewUpdates == {[rating |-> 5]}
StoreMealPlanUpdates == {[mealType |-> "dinner"]}

StoreUpdate ==
    \E id \in StoreIds :
        \/ \E u \in StoreUserUpdates : updateUser(id, u)
        \/ \E u \in RecipeUpdates : updateRecipe(id, u)
        \/ \E u \in StoreReviewUpdates : updateReview(id, u)
        \/ \E u \in ItemUpdates : updateShoppingListItem(id, u)
        \/ \E u \in StoreMealPlanUpdates : updateMealPlan(id, u)

StoreDelete ==
    \E id \in StoreIds :
        \/ deleteRecipe(id)
        \/ deleteReview(id)
        \/ deleteShoppingListItem(id)
        \/ deleteMealPlan(id)

NextStore == StoreCreate \/ StoreGet \/ StoreUpdate \/ StoreDelete

SpecStore == Init /\ [][NextStore]_vars

(***************************************************************************)
(* Claims about the whole store                                            *)
(***************************************************************************)
\* the collection an operation works on
CollectionOf(op) ==
    CASE op \in {"getUser", "updateUser"} -> users
      [] op \in {"getRecipe", "updateRecipe", "deleteRecipe"} -> recipes
      [] op \in {"updateReview", "deleteReview"} -> reviews
      [] op \in {"getShoppingListItem", "updateShoppingListItem",
                 "deleteShoppingListItem"} -> shoppingItems
      [] op \in {"updateMealPlan", "deleteMealPlan"} -> mealPlans

ByIdOps ==
    {"getUser", "updateUser", "getRecipe", "updateRecipe", "deleteRecipe",
     "updateReview", "deleteReview", "getShoppingListItem",
     "updateShoppingListItem", "deleteShoppingListItem", "updateMealPlan",
     "deleteMealPlan"}

StoreUnchanged ==
    UNCHANGED <<userVars, recipeVars, ingredientVars, instructionVars,
                reviewVars, favorites, shoppingVars, mealPlanVars, activityVars>>

C12_Step ==
    (ret'.op \in ByIdOps /\ ~MapHas(CollectionOf(ret'.op), ret'.a1)) =>
        /\ ret'.ok = FALSE
        /\ ret'.out = <<>>
        /\ StoreUnchanged

\* C12: for every entity type, a get, update or delete on an id that is not
\* a key of the collection returns the absent value (get, update) or false
\* (delete), and leaves all collections and all id counters as they were.
C12_NotFoundIsAbsent == [][C12_Step]_vars

\* a delete of a recipe id that is no longer (or not yet) a key, in a store
\* that holds other records
C12_Witness ==
    /\ ret.op = "deleteRecipe" /\ ~ret.ok
    /\ recipeCurrentId > 1
    /\ ~MapHas(recipes, ret.a1)
    /\ users # <<>>

CreateOps ==
    {"createUser", "createRecipe", "createIngredient", "createInstruction",
     "createReview", "addToShoppingList", "createMealPlan", "createActivityLog"}

\* the collection and the id counter of each create
CreatedIn ==
    [createUser |-> users, createRecipe |-> recipes,
     createIngredient |-> ingredients, createInstruction |-> instructions,
     createReview |-> reviews, addToShoppingList |-> shoppingItems,
     createMealPlan |-> mealPlans, createActivityLog |-> activityLogs]

CounterOf ==
    [createUser |-> userCurrentId, createRecipe |-> recipeCurrentId,
     createIngredient |-> ingredientCurrentId,
     createInstruction |-> instructionCurrentId,
     createReview |-> reviewCurrentId,
     addToShoppingList |-> shoppingItemCurrentId,
     createMealPlan |-> mealPlanCurrentId,
     createActivityLog |-> activityLogCurrentId]

\* every key in use was handed out by the counter of its collection before
C13_KeysBelowCounter ==
    \A op \in CreateOps :
        \A i \in 1..Len(CreatedIn[op]) : CreatedIn[op][i].k < CounterOf[op]

\* no counter goes back, whatever the call; a create returns the value of
\* its counter, which is above every id returned before and every key in
\* use, moves the counter past it, and stores the record under that id;
\* nothing but a create adds a record
C13_Step ==
    /\ \A op \in CreateOps : CounterOf'[op] >= CounterOf[op]
    /\ ret'.op \in CreateOps =>
          /\ ret'.a1 = CounterOf[ret'.op]
          /\ CounterOf'[ret'.op] = ret'.a1 + 1
          /\ ~MapHas(CreatedIn[ret'.op], ret'.a1)
          /\ MapGet(CreatedIn'[ret'.op], ret'.a1) = ret'.out
          /\ ret'.out[1].id = ret'.a1
    /\ \A op \in CreateOps :
          Len(CreatedIn'[op]) > Len(CreatedIn[op]) =>
              /\ ret'.op = op
              /\ CounterOf'[op] = CounterOf[op] + 1

\* C13: for each entity type with a numeric id, in any interleaving of
\* create, update and delete calls, the ids returned by successive creates
\* are strictly increasing, no two records ever created receive the same id,
\* and an id freed by a delete is never assigned again.
C13_IdsIncrease == []C13_KeysBelowCounter /\ [][C13_Step]_vars

\* review 1 was deleted and the next review created got the id 2, not 1
C13_Witness ==
    /\ ret.op = "createReview" /\ ret.a1 = 2
    /\ ~MapHas(reviews, 1)
    /\ Len(reviews) = 1

\* what an update of the record under key id with the argument update makes
\* of a collection, given the record returned: the fields of the argument
\* are replaced, the other fields and the other entries are kept, and a get
\* of the id returns the record the update returned
UpdateEffect(before, after, id, update, returned) ==
    LET old == MapGet(before, id)[1]
        new == MapGet(after, id)[1]
    IN  /\ MapHas(after, id)
        /\ DOMAIN new = (DOMAIN old) \cup (DOMAIN update)
        /\ \A f \in DOMAIN update : new[f] = update[f]
        /\ \A f \in (DOMAIN old) \ (DOMAIN update) : new[f] = old[f]
        /\ Len(after) = Len(before)
        /\ \A i \in 1..Len(before) :
              /\ after[i].k = before[i].k
              /\ before[i].k # id => after[i] = before[i]
        /\ returned = <<new>>

C14_Step ==
    /\ \A id \in StoreIds, u \in StoreUserUpdates :
          (ret'.op = "updateUser" /\ ret'.a1 = id /\ MapHas(users, id)
           /\ updateUser(id, u)) =>
              /\ UpdateEffect(users, users', id, u, ret'.out)
              /\ UNCHANGED <<userCurrentId, recipeVars, ingredientVars,
                             instructionVars, reviewVars, favorites,
                             shoppingVars, mealPlanVars, activityVars>>
    /\ \A id \in StoreIds, u \in RecipeUpdates :
          (ret'.op = "updateRecipe" /\ ret'.a1 = id /\ MapHas(recipes, id)
           /\ updateRecipe(id, u)) =>
              /\ UpdateEffect(recipes, recipes', id, u, ret'.out)
              /\ UNCHANGED <<recipeCurrentId, userVars, ingredientVars,
                             instructionVars, reviewVars, favorites,
                             shoppingVars, mealPlanVars, activityVars>>
    /\ \A id \in StoreIds, u \in StoreReviewUpdates :
          (ret'.op = "updateReview" /\ ret'.a1 = id /\ MapHas(reviews, id)
           /\ updateReview(id, u)) =>
              /\ UpdateEffect(reviews, reviews', id, u, ret'.out)
              /\ UNCHANGED <<reviewCurrentId, userVars, recipeVars,
                             ingredientVars, instructionVars, favorites,
                             shoppingVars, mealPlanVars, activityVars>>
    /\ \A id \in StoreIds, u \in ItemUpdates :
          (ret'.op = "updateShoppingListItem" /\ ret'.a1 = id /\ MapHas(shoppingItems, id)
           /\ updateShoppingListItem(id, u)) =>
              /\ UpdateEffect(shoppingItems, shoppingItems', id, u, ret'.out)
              /\ UNCHANGED <<shoppingItemCurrentId, userVars, recipeVars,
                             ingredientVars, instructionVars, reviewVars,
                             favorites, mealPlanVars, activityVars>>
    /\ \A id \in StoreIds, u \in StoreMealPlanUpdates :
          (ret'.op = "updateMealPlan" /\ ret'.a1 = id /\ MapHas(mealPlans, id)
           /\ updateMealPlan(id, u)) =>
              /\ UpdateEffect(mealPlans, mealPlans', id, u, ret'.out)
              /\ UNCHANGED <<mealPlanCurrentId, userVars, recipeVars,
                             ingredientVars, instructionVars, reviewVars,
                             favorites, shoppingVars, activityVars>>

\* C14: an update call (updateRecipe, updateUser, updateReview,
\* updateShoppingListItem, updateMealPlan) on an existing id replaces exactly
\* the fields present in the update argument and leaves every other field of
\* the record, every other record and every other collection unchanged; the
\* record returned is the one a get of that id returns afterwards.
C14_UpdateReplacesGivenFields == [][C14_Step]_vars

\* the second of two recipes was updated: its rating is the new one, its
\* title and the first recipe are as created
C14_Witness ==
    /\ ret.op = "updateRecipe" /\ ret.ok /\ ret.a1 = 2
    /\ Len(recipes) = 2
    /\ recipes[2].v.rating = Some(50) /\ recipes[2].v.title = "Soup"
    /\ recipes[1].v.rating = Null
    /\ getRecipe(2) = ret.out

(***************************************************************************)
(* A recipe with the records that refer to it, and its deletion.           *)
(***************************************************************************)
\* records that refer to recipe 1: at most MaxChildren records in all
OrphanCreate ==
    /\ RecordsCreated + Len(favorites) < MaxChildren
    /\ \/ AddRecipe
       \/ createIngredient([recipeId |-> 1, name |-> "salt", quantity |-> "1"])
       \/ createInstruction([recipeId |-> 1, stepNumber |-> 1,
                             description |-> "d"])
       \/ \E x \in {4, 5} :
             createReview([userId |-> 1, recipeId |-> 1, rating |-> x,
                           comment |-> "c"])
       \/ addFavorite([userId |-> 1, recipeId |-> 1])
       \/ addToShoppingList([userId |-> 1, item |-> "eggs",
                             recipeId |-> Some(1)])
       \/ createMealPlan([userId |-> 1, recipeId |-> 1, plannedDate |-> 0,
                          mealType |-> "lunch"])

NextOrphans == OrphanCreate \/ DeleteRecipe

SpecOrphans == Init /\ [][NextOrphans]_vars

ReferTo(collection, recipeId) ==
    SelectSeq(collection, LAMBDA e : e.v.recipeId = recipeId)

C15_Step ==
    \A id \in 1..MaxRecipes :
        (ret'.op = "deleteRecipe" /\ ret'.a1 = id) =>
            /\ recipes' = SelectSeq(recipes, LAMBDA e : e.k # id)
            /\ UNCHANGED <<recipeCurrentId, userVars, ingredientVars,
                           instructionVars, reviewVars, favorites,
                           shoppingVars, mealPlanVars, activityVars>>
            /\ IngredientsByRecipeOf(ingredients', id) = getIngredientsByRecipe(id)
            /\ InstructionsByRecipeOf(instructions', id) = getInstructionsByRecipe(id)
            /\ ReviewsByRecipeOf(reviews', id) = getReviewsByRecipe(id)
            /\ AverageRatingOf(reviews', id) = getAverageRating(id)

RECURSIVE JoinRecipes(_)
JoinRecipes(userFavorites) ==
    IF userFavorites = <<>> THEN <<>>
    ELSE getRecipe(Head(userFavorites).recipeId) \o JoinRecipes(Tail(userFavorites))

\* a getFavorites that joins the favorites of every user
getFavoritesOfAll(userId) == JoinRecipes(MapValues(favorites))

getFavorites(userId) ==
    JoinRecipes(FilterBy(MapValues(favorites), "userId", userId))

AddFavoriteRecipe ==
    \E u \in UserIds, r \in RecipeIds : addFavorite([userId |-> u, recipeId |-> r])

RemoveFavoriteRecipe ==
    \E u \in UserIds, r \in RecipeIds : removeFavorite(u, r)

NextFavoriteRecipes ==
    AddRecipe \/ DeleteRecipe \/ AddFavoriteRecipe \/ RemoveFavoriteRecipe

SpecFavoriteRecipes == Init /\ [][NextFavoriteRecipes]_vars

\* the keys of the stored recipes of which the user has a favorite record
FavoriteStored(userId) ==
    {i \in 1..Len(recipes) : FavoritesOf(userId, recipes[i].k) # {}}

\* C16: getFavorites(u) returns exactly the currently stored recipes of
\* which user u has a favorite record, each once; a favorite whose recipe
\* has been deleted adds nothing to the result, while isFavorite(u, r) of
\* that recipe is still true.
C16_FavoritesAreStoredRecipes ==
    \A u \in UserIds :
        LET result == getFavorites(u)
        IN  /\ Len(result) = Cardinality(FavoriteStored(u))
            /\ \A i \in FavoriteStored(u) : Occurrences(result, recipes[i].v) = 1
            /\ \A r \in RecipeIds :
                  FavoritesOf(u, r) # {} => isFavorite(u, r)
            /\ \A r \in RecipeIds :
                  (FavoritesOf(u, r) # {} /\ ~MapHas(recipes, r)) =>
                      \A k \in 1..Len(result) : result[k].id # r

\* user 1 has recipes 1 and 2 as favorites and recipe 1 has been deleted
C16_Witness ==
    /\ ret.op = "deleteRecipe" /\ ret.ok /\ ret.a1 = 1
    /\ isFavorite(1, 1) /\ isFavorite(1, 2)
    /\ Len(getFavorites(1)) = 1
    /\ getFavorites(1)[1].id = 2
    /\ isFavorite(2, 1) /\ getFavorites(2) = <<>>

(***************************************************************************)
(* Request handlers of src/server/routes.ts.  Every promise a handler      *)
(* awaits from MemStorage is already settled, so the handler's             *)
(* continuations run as microtasks before the event loop takes up another  *)
(* request: a handler that only calls the storage is one step.  ret holds  *)
(* the route, the user of the session, the id of the request and, in out,  *)
(* the response: its status first, then the records of its body.           *)
(***************************************************************************)
Respond(route, userId, id, status, body) ==
    Return(route, userId, id, status < 400, <<[status |-> status]>> \o body)

\* a handler that responds without having been suspended
Responds(route, userId, id, status, body) ==
    /\ ret' = Respond(route, userId, id, status, body)
    /\ UNCHANGED inFlight

\* what createActivityLog(insertLog) adds to this.activityLogs
LogAppended(insertLog) ==
    MapSet(activityLogs, activityLogCurrentId,
           Merge(insertLog,
                 [id |-> activityLogCurrentId, createdAt |-> now,
                  entityId |-> OrNullNum(insertLog, "entityId"),
                  entityType |-> OrNullStr(insertLog, "entityType"),
                  details |-> OrNullStr(insertLog, "details")]))

\* bodies of POST /api/favorites: a recipeId, or none (which
\* insertFavoriteSchema.parse rejects)
FavoriteBodies == {[recipeId |-> r] : r \in RecipeIds} \cup {[comment |-> "c"]}

\* a handler that adds the favorite without asking isFavorite first
PostFavoriteUnchecked(userId, body) ==
    LET favoriteData == [userId |-> userId, recipeId |-> body.recipeId]
        favorite == Merge(favoriteData, [createdAt |-> now])
    IN  /\ "recipeId" \in DOMAIN body
        /\ activityLogCurrentId <= MaxLogs
        /\ favorites' = MapSet(favorites, FavoriteKey(userId, body.recipeId),
                               favorite)
        /\ activityLogs' = LogAppended(
                [userId |-> userId, action |-> "add_favorite",
                 entityId |-> Some(body.recipeId),
                 entityType |-> Some("recipe"), details |-> Some("Added recipe " \o ToString(body.recipeId)
                                   \o " to favorites")])
        /\ activityLogCurrentId' = activityLogCurrentId + 1
        /\ Responds("POST /api/favorites", userId, body.recipeId, 201,
                          <<favorite>>)
        /\ UNCHANGED <<userVars, recipeVars, ingredientVars, instructionVars,
                       reviewVars, shoppingVars, mealPlanVars, now>>

\* app.post("/api/favorites")
PostFavorite(userId, body) ==
    IF "recipeId" \notin DOMAIN body
    THEN /\ Responds("POST /api/favorites", userId, 0, 400, <<>>)
         /\ UNCHANGED <<userVars, recipeVars, ingredientVars, instructionVars,
                        reviewVars, favorites, shoppingVars, mealPlanVars,
                        activityVars, now>>
    ELSE IF isFavorite(userId, body.recipeId)
    THEN /\ Responds("POST /api/favorites", userId, body.recipeId, 400, <<>>)
         /\ UNCHANGED <<userVars, recipeVars, ingredientVars, instructionVars,
                        reviewVars, favorites, shoppingVars, mealPlanVars,
                        activityVars, now>>
    ELSE LET favoriteData == [userId |-> userId, recipeId |-> body.recipeId]
             favorite == Merge(favoriteData, [createdAt |-> now])
         IN  /\ activityLogCurrentId <= MaxLogs
             /\ favorites' = MapSet(favorites,
                                    FavoriteKey(userId, body.recipeId), favorite)
             /\ activityLogs' = LogAppended(
                    [userId |-> userId, action |-> "add_favorite",
                     entityId |-> Some(body.recipeId),
                     entityType |-> Some("recipe"), details |-> Some("Added recipe " \o ToString(body.recipeId)
                                   \o " to favorites")])
             /\ activityLogCurrentId' = activityLogCurrentId + 1
             /\ Responds("POST /api/favorites", userId, body.recipeId,
                               201, <<favorite>>)
             /\ UNCHANGED <<userVars, recipeVars, ingredientVars,
                            instructionVars, reviewVars, shoppingVars,
                            mealPlanVars, now>>

\* app.delete("/api/favorites/:recipeId")
DeleteFavorite(userId, recipeId) ==
    IF ~isFavorite(userId, recipeId)
    THEN /\ Responds("DELETE /api/favorites/:recipeId", userId, recipeId,
                           404, <<>>)
         /\ UNCHANGED <<userVars, recipeVars, ingredientVars, instructionVars,
                        reviewVars, favorites, shoppingVars, mealPlanVars,
                        activityVars, now>>
    ELSE /\ activityLogCurrentId <= MaxLogs
         /\ favorites' = MapDelete(favorites, FavoriteKey(userId, recipeId))
         /\ activityLogs' = LogAppended(
                [userId |-> userId, action |-> "remove_favorite",
                 entityId |-> Some(recipeId), entityType |-> Some("recipe"),
                 details |-> Some("Removed recipe " \o ToString(recipeId)
                                  \o " from favorites")])
         /\ activityLogCurrentId' = activityLogCurrentId + 1
         /\ Responds("DELETE /api/favorites/:recipeId", userId, recipeId,
                           204, <<>>)
         /\ UNCHANGED <<userVars, recipeVars, ingredientVars, instructionVars,
                        reviewVars, shoppingVars, mealPlanVars, now>>

PostFavoriteRequest == \E u \in UserIds, b \in FavoriteBodies : PostFavorite(u, b)
DeleteFavoriteRequest == \E u \in UserIds, r \in RecipeIds : DeleteFavorite(u, r)

NextFavoriteRequests == PostFavoriteRequest \/ DeleteFavoriteRequest \/ Tick

SpecFavoriteRequests == Init /\ [][NextFavoriteRequests]_vars

C17_Step ==
    /\ (/\ now' = now
        /\ ret'.op = "POST /api/favorites"
        /\ isFavorite(ret'.a1, ret'.a2)) =>
            /\ ret'.out = <<[status |-> 400]>>
            /\ favorites' = favorites
            /\ UNCHANGED <<userVars, recipeVars, ingredientVars, instructionVars,
                           reviewVars, shoppingVars, mealPlanVars, activityVars>>
    /\ (/\ now' = now
        /\ ret'.op = "DELETE /api/favorites/:recipeId"
        /\ ~isFavorite(ret'.a1, ret'.a2)) =>
            /\ ret'.out = <<[status |-> 404]>>
            /\ favorites' = favorites
            /\ UNCHANGED <<userVars, recipeVars, ingredientVars, instructionVars,
                           reviewVars, shoppingVars, mealPlanVars, activityVars>>

\* C17: a POST /api/favorites for a (user, recipe) pair that is already a
\* favorite is answered with 400 and leaves the favorites (the createdAt of
\* the existing record included) and the activity log unchanged; a DELETE
\* /api/favorites/:recipeId for a pair that is not a favorite is answered
\* with 404 and changes nothing either.
C17_FavoriteRequestsRejected == [][C17_Step]_vars

\* a second POST for a favorite of an earlier time was answered with 400
C17_Witness ==
    /\ ret.op = "POST /api/favorites" /\ ret.out = <<[status |-> 400]>>
    /\ isFavorite(ret.a1, ret.a2)
    /\ now = 1
    /\ MapGet(favorites, FavoriteKey(ret.a1, ret.a2))[1].createdAt = 0
    /\ Len(activityLogs) = 1

(***************************************************************************)
(* The activity log among the calls that change the store: creates,        *)
(* updates (a profile update is updateUser), deletes, clears of the        *)
(* shopping list and the favorites requests, which log what they did.      *)
(***************************************************************************)
LogStoreCreate ==
    /\ (userCurrentId - 1) + (recipeCurrentId - 1)
       + (shoppingItemCurrentId - 1) < MaxRecords
    /\ \/ createUser([username |-> <<"a">>, email |-> <<"a">>, name |-> "n",
                      password |-> "p"])
       \/ AddRecipe
       \/ addToShoppingList([userId |-> 1, item |-> "milk"])

\* PUT /api/profile ends in updateUser
UpdateProfile == \E id \in StoreIds, u \in StoreUserUpdates : updateUser(id, u)

FavoriteRequest == PostFavorite(1, [recipeId |-> 1]) \/ DeleteFavorite(1, 1)

NextLog ==
    \/ CreateActivityLog \/ LogStoreCreate \/ UpdateProfile
    \/ DeleteRecipe \/ ClearShoppingList \/ FavoriteRequest

SpecLog == Init /\ [][NextLog]_vars

LogsOf(stored, userId) == SelectSeq(stored, LAMBDA e : e.v.userId = userId)

C18_Step ==
    /\ Len(activityLogs') >= Len(activityLogs)
    /\ \A i \in 1..Len(activityLogs) : activityLogs'[i] = activityLogs[i]
    /\ \A u \in UserIds :
          Len(LogsOf(activityLogs', u)) >= Len(LogsOf(activityLogs, u))

\* C18: the activity log is append-only: an entry, once created, stays in
\* the store with all its fields as they were in every later state, and the
\* number of entries of each user never decreases, whatever is processed
\* afterwards (deletes, clears and profile updates included).
C18_LogIsAppendOnly == [][C18_Step]_vars

\* a log entry of user 1 has outlived a profile update, a delete or a clear
C18_Witness ==
    /\ Len(LogsOf(activityLogs, 1)) >= 1
    /\ ret.op \in {"updateUser", "deleteRecipe", "clearShoppingList"}
    /\ ret.ok

(***************************************************************************)
(* The review requests.  insertReviewSchema is createInsertSchema(reviews) *)
(* with nothing added: rating has to be a number, no range is checked.     *)
(* PUT /api/reviews/:id validates nothing and passes req.body on.          *)
(***************************************************************************)
\* ratings a client may send: inside 1..5 and just outside
SentRatings == {0, 5, 6}

\* bodies of POST /api/recipes/:id/reviews: with a rating, or without (which
\* insertReviewSchema.parse rejects)
ReviewBodies ==
    {[rating |-> x, comment |-> "c"] : x \in SentRatings} \cup {[comment |-> "c"]}

\* bodies of PUT /api/reviews/:id
ReviewPutBodies == {[rating |-> x] : x \in SentRatings}

\* app.post("/api/recipes/:id/reviews")
PostReview(userId, recipeId, body) ==
    IF "rating" \notin DOMAIN body
    THEN /\ Responds("POST /api/recipes/:id/reviews", userId, recipeId,
                           400, <<>>)
         /\ UNCHANGED <<userVars, recipeVars, ingredientVars, instructionVars,
                        reviewVars, favorites, shoppingVars, mealPlanVars,
                        activityVars, now>>
    ELSE LET reviewData == Merge(body, [userId |-> userId, recipeId |-> recipeId])
             review == Merge(reviewData,
                             [id |-> reviewCurrentId, createdAt |-> now])
         IN  /\ reviewCurrentId <= MaxReviews
             /\ activityLogCurrentId <= MaxLogs
             /\ reviewCurrentId' = reviewCurrentId + 1
             /\ reviews' = MapSet(reviews, reviewCurrentId, review)
             /\ activityLogs' = LogAppended(
                    [userId |-> userId, action |-> "review_recipe",
                     entityId |-> Some(review.id), entityType |-> Some("review"),
                     details |-> Some("Reviewed recipe " \o ToString(recipeId)
                                      \o " with rating "
                                      \o ToString(review.rating))])
             /\ activityLogCurrentId' = activityLogCurrentId + 1
             /\ Responds("POST /api/recipes/:id/reviews", userId,
                               recipeId, 201, <<review>>)
             /\ UNCHANGED <<userVars, recipeVars, ingredientVars,
                            instructionVars, favorites, shoppingVars,
                            mealPlanVars, now>>

\* app.put("/api/reviews/:id")
PutReview(userId, id, body) ==
    LET mine == getReviewsByUser(userId)
        found == {i \in 1..Len(mine) : mine[i].id = id}
    IN  IF found = {}
        THEN /\ Responds("PUT /api/reviews/:id", userId, id, 404, <<>>)
             /\ UNCHANGED <<userVars, recipeVars, ingredientVars,
                            instructionVars, reviewVars, favorites,
                            shoppingVars, mealPlanVars, activityVars, now>>
        ELSE LET existingReview == mine[Min(found)]
                 stored == MapGet(reviews, id)
                 updatedReview == IF stored = <<>> THEN <<>>
                                  ELSE <<Merge(stored[1], body)>>
             IN  /\ activityLogCurrentId <= MaxLogs
                 /\ reviews' = IF stored = <<>> THEN reviews
                               ELSE MapSet(reviews, id, updatedReview[1])
                 /\ activityLogs' = LogAppended(
                        [userId |-> userId, action |-> "update_review",
                         entityId |-> Some(id), entityType |-> Some("review"),
                         details |-> Some("Updated review " \o ToString(id)
                                          \o " for recipe "
                                          \o ToString(existingReview.recipeId))])
                 /\ activityLogCurrentId' = activityLogCurrentId + 1
                 /\ Responds("PUT /api/reviews/:id", userId, id, 200,
                                   updatedReview)
                 /\ UNCHANGED <<reviewCurrentId, userVars, recipeVars,
                                ingredientVars, instructionVars, favorites,
                                shoppingVars, mealPlanVars, now>>

PostReviewRequest ==
    \E u \in UserIds, b \in ReviewBodies : PostReview(u, 1, b)
PutReviewRequest ==
    \E u \in UserIds, id \in 1..MaxReviews, b \in ReviewPutBodies :
        PutReview(u, id, b)

NextReviewRequests == PostReviewRequest \/ PutReviewRequest

SpecReviewRequests == Init /\ [][NextReviewRequests]_vars

C19_RatingsInRange ==
    /\ \A i \in 1..Len(reviews) : reviews[i].v.rating \in Ratings
    /\ \A r \in RecipeIds :
          \/ getAverageRating(r) = Null
          \/ getAverageRating(r)[1] \in 10..50

\* a request answered with a status below 400 has changed the reviews only
\* to ratings within 1..5; any other request has left the reviews alone
C19_Step ==
    ret'.op \in {"POST /api/recipes/:id/reviews", "PUT /api/reviews/:id"} =>
        \/ /\ ret'.out[1].status = 400
           /\ UNCHANGED reviewVars
        \/ /\ ret'.out[1].status # 400
           /\ \A i \in 1..Len(reviews') : reviews'[i].v.rating \in Ratings

\* C19: every review stored through the review endpoints has an integer
\* rating in 1..5: a POST /api/recipes/:id/reviews or PUT /api/reviews/:id
\* with a rating outside 1..5 is answered with 400 and leaves the reviews
\* unchanged, so getAverageRating is absent or within [1, 5].
C19_RatingsValidated == []C19_RatingsInRange /\ [][C19_Step]_vars

(***************************************************************************)
(* GET /api/recipes/top and GET /api/recipes/recent: local recipes first,  *)
(* padded with recipes of TheMealDB.                                       *)
(***************************************************************************)
TopDefaultLimit == 6
RecentDefaultLimit == 3

Digits == <<"0", "1", "2", "3", "4", "5", "6", "7", "8", "9">>

IsDigit(c) == \E d \in 1..10 : Digits[d] = c

DigitValue(c) == (CHOOSE d \in 1..10 : Digits[d] = c) - 1

\* the value of the longest run of digits at the front of a string, after
\* the digits read so far
RECURSIVE ParseDigits(_, _)
ParseDigits(str, read) ==
    IF str = <<>> \/ ~IsDigit(Head(str)) THEN read
    ELSE ParseDigits(Tail(str), 10 * read + DigitValue(Head(str)))

\* parseInt(req.query.limit): Null is NaN (no parameter, or no digit at the
\* front); characters after the digits are ignored
parseInt(str) ==
    LET negative == str # <<>> /\ Head(str) = "-"
        rest == IF negative THEN Tail(str) ELSE str
    IN  IF rest = <<>> \/ ~IsDigit(Head(rest)) THEN Null
        ELSE Some((IF negative THEN -1 ELSE 1) * ParseDigits(rest, 0))

\* parseInt(...) || default: NaN and 0 are falsy
EffectiveLimit(str, default) ==
    LET n == parseInt(str)
    IN  IF n = Null THEN default
        ELSE IF n[1] = 0 THEN default ELSE n[1]

\* ?limit=... as sent: absent, 0, positive, with trailing text, negative
LimitQueries == {<<>>, <<"0">>, <<"1">>, <<"2", "x">>, <<"-", "1">>}

\* a recipe convertMealToRecipe makes of a meal of TheMealDB
ExternalRecipe(j) ==
    [id |-> 52000 + j, title |-> "Meal", userId |-> 0,
     source |-> Some("TheMealDB")]

\* getRandomMeals(count): count requests, each of which adds one recipe or,
\* when it fails or returns no meal, none: any number up to count
RandomMeals(count) ==
    {[j \in 1..k |-> ExternalRecipe(j)] : k \in 0..count}

\* the common part of the two handlers: ret holds the route, the effective
\* limit, the count given to getRandomMeals (0: not called) and the response
Padded(route, localRecipes, limit) ==
    IF Len(localRecipes) >= limit
    THEN /\ Returns(route, limit, 0, TRUE,
                          <<[status |-> 200]>> \o localRecipes)
         /\ UNCHANGED <<userVars, recipeVars, ingredientVars, instructionVars,
                        reviewVars, favorites, shoppingVars, mealPlanVars,
                        activityVars, now>>
    ELSE \E apiRecipes \in RandomMeals(limit - Len(localRecipes)) :
            /\ Returns(route, limit, limit - Len(localRecipes), TRUE,
                             <<[status |-> 200]>> \o localRecipes \o apiRecipes)
            /\ UNCHANGED <<userVars, recipeVars, ingredientVars,
                           instructionVars, reviewVars, favorites, shoppingVars,
                           mealPlanVars, activityVars, now>>

\* app.get("/api/recipes/top")
GetTopRecipes(query) ==
    LET limit == EffectiveLimit(query, TopDefaultLimit)
    IN  Padded("GET /api/recipes/top", getTopRecipes(limit), limit)

\* app.get("/api/recipes/recent")
GetRecentRecipes(query) ==
    LET limit == EffectiveLimit(query, RecentDefaultLimit)
    IN  Padded("GET /api/recipes/recent", getRecentRecipes(limit), limit)

GetTopRequest == \E q \in LimitQueries : GetTopRecipes(q)
GetRecentRequest == \E q \in LimitQueries : GetRecentRecipes(q)

NextPadded ==
    \/ AddRecipe \/ RateRecipe \/ DeleteRecipe
    \/ GetTopRequest \/ GetRecentRequest \/ Tick

SpecPadded == Init /\ [][NextPadded]_vars

\* what the storage returns for the request of ret (the store has not
\* changed since: a request leaves it alone)
LocalOf(request) ==
    IF request.op = "GET /api/recipes/top" THEN getTopRecipes(request.a1)
    ELSE getRecentRecipes(request.a1)

\* C20: for GET /api/recipes/top and GET /api/recipes/recent with effective
\* limit L, the response starts with the local recipes the storage returned,
\* in storage order; the external adapter is called only when fewer than L
\* local recipes were returned, and then with count L minus the local count;
\* external recipes come after all local ones; and the response never holds
\* more than L recipes.
C20_LocalFirstPaddedToLimit ==
    ret.op \in {"GET /api/recipes/top", "GET /api/recipes/recent"} =>
        LET L == ret.a1
            local == LocalOf(ret)
            body == Tail(ret.out)
        IN  /\ Len(body) >= Len(local)
            /\ SubSeq(body, 1, Len(local)) = local
            /\ \A i \in (Len(local) + 1)..Len(body) : body[i].userId = 0
            /\ ret.a2 # 0 => (Len(local) < L /\ ret.a2 = L - Len(local))
            /\ ret.a2 = 0 => Len(body) = Len(local)
            /\ Len(body) <= L

(***************************************************************************)
(* getRandomMeals of src/server/mealdb-service.ts: count requests to       *)
(* random.php in flight at once, joined by Promise.all.                    *)
(***************************************************************************)
MaxFetches == 3

\* what a request to TheMealDB can come to: fetch rejects; the body is not
\* JSON; the body is the JSON null; meals is null; the meal's strSource is
\* no URL; a meal that converts
FetchOutcomes ==
    {"network error", "not JSON", "null body", "no meals", "bad source", "meal"}

\* fetch(url) is fulfilled, with a response
FetchFulfils(outcome) == outcome # "network error"

\* response.json() is fulfilled, with the parsed body
JsonFulfils(outcome) == outcome \notin {"network error", "not JSON"}

\* the body has meals and meals[0] (reading meals of null throws)
HasMeal(outcome) == outcome \in {"bad source", "meal"}

\* convertMealToRecipe(meal) returns (new URL(meal.strSource) throws on a
\* string that is no URL)
Converts(outcome) == outcome = "meal"

\* the callback given to the second then() throws
CallbackThrows(outcome) ==
    outcome = "null body" \/ (HasMeal(outcome) /\ ~Converts(outcome))

\* the callback reaches recipes.push(recipe)
Pushes(outcome) ==
    FetchFulfils(outcome) /\ JsonFulfils(outcome) /\ HasMeal(outcome)
        /\ Converts(outcome)

\* the chain fetch().then().then() without its catch(): rejected when a
\* link rejects or throws
RequestRejectsUncaught(outcome) ==
    ~FetchFulfils(outcome) \/ ~JsonFulfils(outcome) \/ CallbackThrows(outcome)

\* the chain with .catch(err => console.error(...)): the handler returns,
\* so the promise of the request is fulfilled whatever happened before
RequestRejects(outcome) == FALSE

\* const requests = Array(count).fill(null).map(() => fetch(...)...): the
\* requests start together; the call is suspended at await Promise.all
CallRandomMeals ==
    /\ inFlight = <<>>
    /\ \E count \in 0..MaxFetches :
        inFlight' = <<[fn |-> "getRandomMeals", count |-> count,
                       requests |-> [i \in 1..count |-> "pending"],
                       recipes |-> <<>>]>>
    /\ StoreUnchanged
    /\ UNCHANGED <<now, ret>>

\* one request settles, in any order, and its callbacks run
SettleRandomMeal ==
    /\ inFlight # <<>>
    /\ inFlight[1].fn = "getRandomMeals"
    /\ \E i \in 1..inFlight[1].count, outcome \in FetchOutcomes :
        /\ inFlight[1].requests[i] = "pending"
        /\ inFlight' =
            <<[inFlight[1] EXCEPT
                 !.requests[i] = IF RequestRejects(outcome) THEN "rejected"
                                 ELSE outcome,
                 !.recipes = IF Pushes(outcome)
                             THEN Append(@, ExternalRecipe(i)) ELSE @]>>
    /\ StoreUnchanged
    /\ UNCHANGED <<now, ret>>

AllSettled(call) == \A i \in 1..call.count : call.requests[i] # "pending"

SomeRejected(call) == \E i \in 1..call.count : call.requests[i] = "rejected"

\* await Promise.all(requests); return recipes: Promise.all is rejected with
\* the first rejection, and fulfilled when every request is
ReturnRandomMeals ==
    /\ inFlight # <<>>
    /\ inFlight[1].fn = "getRandomMeals"
    /\ SomeRejected(inFlight[1]) \/ AllSettled(inFlight[1])
    /\ ret' = Return("getRandomMeals", inFlight[1].count, 0,
                     ~SomeRejected(inFlight[1]),
                     IF SomeRejected(inFlight[1]) THEN <<>>
                     ELSE inFlight[1].recipes)
    /\ inFlight' = <<>>
    /\ StoreUnchanged
    /\ UNCHANGED now

NextRandomMeals == CallRandomMeals \/ SettleRandomMeal \/ ReturnRandomMeals

\* the continuation of a settled Promise.all is a microtask: it runs
SpecRandomMeals ==
    Init /\ [][NextRandomMeals]_vars /\ WF_vars(ReturnRandomMeals)

\* the requests of a call that came to a meal
MealsOf(call) == {i \in 1..call.count : call.requests[i] = "meal"}

RandomMealsInFlight == inFlight # <<>> /\ inFlight[1].fn = "getRandomMeals"

C21_Step ==
    (RandomMealsInFlight /\ ret'.op = "getRandomMeals" /\ inFlight' = <<>>) =>
        LET call == inFlight[1]
        IN  /\ AllSettled(call)
            /\ ret'.ok
            /\ Len(ret'.out) = Cardinality(MealsOf(call))
            /\ Len(ret'.out) <= call.count
            /\ \A i \in 1..call.count :
                 Occurrences(ret'.out, ExternalRecipe(i)) =
                     IF call.requests[i] = "meal" THEN 1 ELSE 0

C21_Joined ==
    (RandomMealsInFlight /\ AllSettled(inFlight[1])) ~> (inFlight = <<>>)

DetailLimit == 10
CategoryLimit == 8
MaxListed == 11
MaxFound == 2

\* the outcome of the statements of a try block
Thrown == [threw |-> TRUE, value |-> <<>>]
Value(v) == [threw |-> FALSE, value |-> v]

\* a function without its catch block: what the try block throws rejects
\* the promise the async function returned
Uncaught(try, fallback) == Return("", 0, 0, ~try.threw, try.value)

\* try { ... } catch (error) { console.error(...); return fallback; }
\* null is <<>>, as is the empty list
Caught(try, fallback) ==
    Return("", 0, 0, TRUE, IF try.threw THEN fallback ELSE try.value)

\* const response = await fetch(url); const data = await response.json();
\* followed by a read of data.meals or data.categories
ResponseThrows(outcome) ==
    ~FetchFulfils(outcome) \/ ~JsonFulfils(outcome) \/ outcome = "null body"

\* responses without a list, and the kinds of meal in a list
ListOutcomes == {"network error", "not JSON", "null body", "no meals", "meals"}
MealKinds == {"bad source", "meal"}

\* the async callback of data.meals.slice(0, 10).map(...) for one meal
DetailTry(outcome, i) ==
    IF ResponseThrows(outcome) THEN Thrown
    ELSE IF ~HasMeal(outcome) THEN Value(Null)
    ELSE IF ~Converts(outcome) THEN Thrown
    ELSE Value(Some(ExternalRecipe(i)))

\* detailedRecipes.filter(recipe => recipe !== null)
RECURSIVE NotNull(_)
NotNull(s) ==
    IF s = <<>> THEN <<>>
    ELSE Head(s) \o NotNull(Tail(s))

\* the try block of getMealsByCategory: listed is the number of meals of
\* the category, details[i] what the lookup of the i-th comes to
MealsByCategoryTry(outcome, listed, details) ==
    IF ResponseThrows(outcome) THEN Thrown
    ELSE IF outcome = "no meals" THEN Value(<<>>)
    ELSE LET looked == Slice([i \in 1..listed |-> i], DetailLimit)
             tries == [i \in 1..Len(looked) |-> DetailTry(details[i], looked[i])]
         IN  IF \E i \in 1..Len(tries) : tries[i].threw THEN Thrown
             ELSE Value(NotNull([i \in 1..Len(tries) |-> tries[i].value]))

\* the lookups all find their meal, but for one of them (or none)
DetailOutcomes(listed) ==
    {[i \in 1..listed |-> IF i = odd THEN outcome ELSE "meal"] :
        odd \in 0..listed, outcome \in FetchOutcomes}

GetMealsByCategory ==
    \E outcome \in ListOutcomes, listed \in 0..MaxListed :
        \E details \in DetailOutcomes(listed) :
            LET r == Caught(MealsByCategoryTry(outcome, listed, details), <<>>)
            IN  /\ Returns("getMealsByCategory", listed, 0, r.ok, r.out)
                /\ StoreUnchanged
                /\ UNCHANGED now

\* the try block of searchMeals: found[i] is the kind of the i-th meal
SearchMealsTry(outcome, found) ==
    IF ResponseThrows(outcome) THEN Thrown
    ELSE IF outcome = "no meals" THEN Value(<<>>)
    ELSE IF \E i \in 1..Len(found) : ~Converts(found[i]) THEN Thrown
    ELSE Value([i \in 1..Len(found) |-> ExternalRecipe(i)])

FoundMeals == UNION {[1..n -> MealKinds] : n \in 0..MaxFound}

SearchMeals ==
    \E outcome \in ListOutcomes, found \in FoundMeals :
        LET r == Caught(SearchMealsTry(outcome, found), <<>>)
        IN  /\ Returns("searchMeals", Len(found), 0, r.ok, r.out)
            /\ StoreUnchanged
            /\ UNCHANGED now

\* the try block of getPopularCategories: listed categories, of which the
\* entry at place broken (if any) is null, so that reading its strCategory
\* throws
PopularCategoriesTry(outcome, listed, broken) ==
    IF ResponseThrows(outcome) THEN Thrown
    ELSE IF outcome = "no meals" THEN Value(<<>>)
    ELSE LET first == Slice([i \in 1..listed |-> i], CategoryLimit)
         IN  IF \E i \in 1..Len(first) : first[i] = broken THEN Thrown
             ELSE Value(first)

GetPopularCategories ==
    \E outcome \in ListOutcomes, listed \in 0..MaxListed, broken \in 0..MaxListed :
        LET r == Caught(PopularCategoriesTry(outcome, listed, broken), <<>>)
        IN  /\ Returns("getPopularCategories", listed, broken, r.ok, r.out)
            /\ StoreUnchanged
            /\ UNCHANGED now

\* the try block of getRecipeDetails(id)
RecipeDetailsTry(outcome, id) ==
    IF ResponseThrows(outcome) THEN Thrown
    ELSE IF ~HasMeal(outcome) THEN Value(Null)
    ELSE IF ~Converts(outcome) THEN Thrown
    ELSE Value(Some([recipe |-> ExternalRecipe(id),
                     ingredients |-> <<[id |-> 1, recipeId |-> 52000 + id]>>,
                     instructions |-> <<[id |-> 1, stepNumber |-> 1,
                                         recipeId |-> 52000 + id]>>,
                     authorName |-> "TheMealDB"]))

GetRecipeDetails ==
    \E outcome \in FetchOutcomes, id \in RecipeIds :
        LET r == Caught(RecipeDetailsTry(outcome, id), Null)
        IN  /\ Returns("getRecipeDetails", id, 0, r.ok, r.out)
            /\ StoreUnchanged
            /\ UNCHANGED now

NextAdapter ==
    \/ GetMealsByCategory \/ SearchMeals \/ GetPopularCategories
    \/ GetRecipeDetails

SpecAdapter == Init /\ [][NextAdapter]_vars

IsExternalRecipe(r) == \E j \in 0..MaxListed : r = ExternalRecipe(j)

\* C22: the adapter never raises into its caller: whatever the requests
\* come to, getMealsByCategory and searchMeals return a list of recipes
\* (possibly empty), getPopularCategories returns a list of at most 8
\* names, and getRecipeDetails returns null or a record with recipe,
\* ingredients, instructions and authorName.
C22_AdapterNeverRaises ==
    /\ ret.op \in {"getMealsByCategory", "searchMeals", "getPopularCategories",
                   "getRecipeDetails"} => ret.ok
    /\ ret.op \in {"getMealsByCategory", "searchMeals"} =>
        \A i \in 1..Len(ret.out) : IsExternalRecipe(ret.out[i])
    /\ ret.op = "getPopularCategories" => Len(ret.out) <= 8
    /\ ret.op = "getRecipeDetails" =>
        \/ ret.out = Null
        \/ /\ Len(ret.out) = 1
           /\ DOMAIN ret.out[1] =
                {"recipe", "ingredients", "instructions", "authorName"}
           /\ ret.out[1].recipe.id = 52000 + ret.a1

\* a category said to have eleven meals, of which the call returned none:
\* a request failed or listed nothing, and the caller got the empty list
C22_Witness ==
    /\ ret.op = "getMealsByCategory" /\ ret.a1 = 11 /\ ret.ok
    /\ ret.out = <<>>

(***************************************************************************)
(* getRecipesByTag                                                         *)
(***************************************************************************)
\* recipes without tags, with no tag, and with tags that differ in case
TaggedRecipes ==
    {[title |-> "Soup", description |-> "d", imageUrl |-> "i", prepTime |-> 5,
      cookTime |-> 10, difficulty |-> "Easy", userId |-> 1, tags |-> t] :
        t \in {Null, Some(<<>>), Some(<<"Vegan">>), Some(<<"vegan", "Quick">>),
               Some(<<"Quick", "Vegan">>)}}

Tags == {"Vegan", "Quick", "Veg"}

\* limit?: omitted, or a number
TagLimits == {Null} \cup {Some(n) : n \in 0..(MaxRecipes + 1)}

\* tags.includes(tag)
Includes(tags, tag) == \E i \in 1..Len(tags) : tags[i] = tag

\* recipe.tags && recipe.tags.includes(tag)
HasTag(recipe, tag) == recipe.tags # Null /\ Includes(recipe.tags[1], tag)

\* limit ? recipes.slice(0, limit) : recipes (an omitted limit and 0 are
\* falsy)
getRecipesByTag(tag, limit) ==
    LET tagged == SelectSeq(MapValues(recipes), LAMBDA recipe : HasTag(recipe, tag))
    IN  IF limit = Null THEN tagged
        ELSE IF limit[1] = 0 THEN tagged
        ELSE Slice(tagged, limit[1])

AddTaggedRecipe == \E r \in TaggedRecipes : createRecipe(r)

\* ret.out holds the arguments, then the recipes returned
GetRecipesByTag ==
    \E tag \in Tags, limit \in TagLimits :
        /\ Returns("getRecipesByTag", 0, 0, TRUE,
                   <<[tag |-> tag, limit |-> limit]>> \o getRecipesByTag(tag, limit))
        /\ StoreUnchanged
        /\ UNCHANGED now

NextTags == AddTaggedRecipe \/ DeleteRecipe \/ GetRecipesByTag

SpecTags == Init /\ [][NextTags]_vars

\* the stored recipes that have the tag, in insertion order
TagMatches(tag) ==
    SelectSeq(MapValues(recipes),
              LAMBDA r : r.tags # Null /\ \E i \in DOMAIN r.tags[1] : r.tags[1][i] = tag)

\* C23: getRecipesByTag(tag, limit) returns, in insertion order, the stored
\* recipes whose tags hold a string equal to tag (null tags never match):
\* all of them when limit is omitted, and the first min(limit, number of
\* matches) of them when limit is given, for every limit >= 0.
C23_RecipesByTag ==
    ret.op = "getRecipesByTag" =>
        LET tag == ret.out[1].tag
            limit == ret.out[1].limit
            matches == TagMatches(tag)
        IN  Tail(ret.out) =
                IF limit = Null THEN matches
                ELSE SubSeq(matches, 1, Min({limit[1], Len(matches)}))

(***************************************************************************)
(* POST /api/favorites, one step per await: a request runs until its next  *)
(* await, and the steps of the requests in flight interleave.  A storage   *)
(* method has no await of its own: it acts when it is called, and the      *)
(* handler sees its result one step later.                                 *)
(***************************************************************************)
MaxRequests == 2

\* a request that has been answered stays in inFlight with its status
Answered(request, status) == [request EXCEPT !.pc = "answered", !.status = status]

\* the handler up to await storage.isFavorite(...): the body is parsed and
\* isFavorite has read the map
StartPostFavorite(userId, body) ==
    /\ Len(inFlight) < MaxRequests
    /\ inFlight' = Append(inFlight,
          IF "recipeId" \notin DOMAIN body
          THEN [route |-> "POST /api/favorites", userId |-> userId, recipeId |-> 0,
                pc |-> "answered", isFavorite |-> FALSE, status |-> 400]
          ELSE [route |-> "POST /api/favorites", userId |-> userId,
                recipeId |-> body.recipeId, pc |-> "isFavorite",
                isFavorite |-> isFavorite(userId, body.recipeId), status |-> 0])
    /\ StoreUnchanged
    /\ UNCHANGED <<now, ret>>

\* from await storage.isFavorite(...) to await storage.addFavorite(...)
CheckedPostFavorite(k) ==
    LET request == inFlight[k]
        favorite == [userId |-> request.userId, recipeId |-> request.recipeId,
                     createdAt |-> now]
    IN  /\ request.pc = "isFavorite"
        /\ IF request.isFavorite
           THEN /\ inFlight' = [inFlight EXCEPT ![k] = Answered(request, 400)]
                /\ UNCHANGED favorites
           ELSE /\ favorites' = MapSet(favorites,
                        FavoriteKey(request.userId, request.recipeId), favorite)
                /\ inFlight' = [inFlight EXCEPT ![k].pc = "addFavorite"]
        /\ UNCHANGED <<userVars, recipeVars, ingredientVars, instructionVars,
                       reviewVars, shoppingVars, mealPlanVars, activityVars,
                       now, ret>>

\* from await storage.addFavorite(...) to await storage.createActivityLog(...)
AddedPostFavorite(k) ==
    LET request == inFlight[k]
    IN  /\ request.pc = "addFavorite"
        /\ activityLogs' = LogAppended(
               [userId |-> request.userId, action |-> "add_favorite",
                entityId |-> Some(request.recipeId),
                entityType |-> Some("recipe"),
                details |-> Some("Added recipe " \o ToString(request.recipeId)
                                 \o " to favorites")])
        /\ activityLogCurrentId' = activityLogCurrentId + 1
        /\ inFlight' = [inFlight EXCEPT ![k].pc = "createActivityLog"]
        /\ UNCHANGED <<userVars, recipeVars, ingredientVars, instructionVars,
                       reviewVars, favorites, shoppingVars, mealPlanVars,
                       now, ret>>

\* from await storage.createActivityLog(...) to res.status(201).json(favorite)
LoggedPostFavorite(k) ==
    LET request == inFlight[k]
    IN  /\ request.pc = "createActivityLog"
        /\ inFlight' = [inFlight EXCEPT ![k] = Answered(request, 201)]
        /\ StoreUnchanged
        /\ UNCHANGED <<now, ret>>

StartPostFavoriteRequest ==
    \E u \in UserIds, b \in FavoriteBodies : StartPostFavorite(u, b)

StepPostFavoriteRequest ==
    \E k \in 1..Len(inFlight) :
        CheckedPostFavorite(k) \/ AddedPostFavorite(k) \/ LoggedPostFavorite(k)

NextConcurrentFavorites == StartPostFavoriteRequest \/ StepPostFavoriteRequest

SpecConcurrentFavorites == Init /\ [][NextConcurrentFavorites]_vars

\* the add_favorite entries of the log for a user and a recipe
AddFavoriteLogs(userId, recipeId) ==
    SelectSeq(MapValues(activityLogs),
              LAMBDA l : l.action = "add_favorite" /\ l.userId = userId
                             /\ l.entityId = Some(recipeId))

\* C24: of two POST /api/favorites requests for the same user and recipe
\* whose steps interleave at the awaits, at most one is answered 201 and
\* the other is answered 400, and one add_favorite entry is logged for the
\* pair.
C24_OneFavoriteAdded ==
    \A i, j \in 1..Len(inFlight) :
        (/\ i < j
         /\ inFlight[i].pc = "answered" /\ inFlight[j].pc = "answered"
         /\ inFlight[i].recipeId # 0
         /\ inFlight[i].userId = inFlight[j].userId
         /\ inFlight[i].recipeId = inFlight[j].recipeId) =>
            /\ {inFlight[i].status, inFlight[j].status} = {201, 400}
            /\ Len(AddFavoriteLogs(inFlight[i].userId, inFlight[i].recipeId)) = 1

(***************************************************************************)
(* Route handlers of the shopping list, the meal plans, the reviews and    *)
(* the profile (src/server/routes.ts).  A handler is one step: the storage *)
(* calls it awaits are settled when awaited.  userId is req.user.id, the   *)
(* authenticated user.                                                     *)
(***************************************************************************)
\* a zod object schema drops the keys it does not name
Strip(body, keys) == [f \in (DOMAIN body) \cap keys |-> body[f]]

\* a createActivityLog that stores nothing
LogsNothing(insertLog) ==
    /\ activityLogCurrentId <= MaxLogs
    /\ UNCHANGED activityVars

\* await storage.createActivityLog(insertLog)
Logs(insertLog) ==
    /\ activityLogCurrentId <= MaxLogs
    /\ activityLogs' = LogAppended(insertLog)
    /\ activityLogCurrentId' = activityLogCurrentId + 1

\* the record addToShoppingList stores under id
StoredItem(insertItem, id) ==
    Merge(insertItem,
          [id |-> id, createdAt |-> now,
           recipeId |-> OrNullNum(insertItem, "recipeId"),
           quantity |-> OrNullStr(insertItem, "quantity"),
           unit |-> OrNullStr(insertItem, "unit"),
           checked |-> OrFalse(insertItem, "checked"),
           spoonacularId |-> OrNullNum(insertItem, "spoonacularId")])

\* list.find(x => x.id === id)
Find(list, id) ==
    LET found == {i \in 1..Len(list) : list[i].id = id}
    IN  IF found = {} THEN Null ELSE Some(list[Min(found)])

\* bodies of POST /api/shopping-list: an item; an item with a userId and an
\* id of its own; no item
ItemBodies ==
    {[item |-> "milk"], [item |-> "eggs", userId |-> 2, id |-> 1],
     [quantity |-> Some("1")]}

\* bodies of PUT /api/shopping-list/:id
ItemPutBodies == {[checked |-> TRUE], [userId |-> 2], [id |-> 2]}

\* app.post("/api/shopping-list")
PostShoppingItem(userId, body) ==
    IF "item" \notin DOMAIN body
    THEN /\ Responds("POST /api/shopping-list", userId, 0, 400, <<>>)
         /\ StoreUnchanged
         /\ UNCHANGED now
    ELSE LET itemData ==
                 Merge(Strip(body, {"item", "quantity", "unit", "checked",
                                    "recipeId", "spoonacularId"}),
                       [userId |-> userId])
             item == StoredItem(itemData, shoppingItemCurrentId)
         IN  /\ shoppingItemCurrentId <= MaxItems
             /\ shoppingItemCurrentId' = shoppingItemCurrentId + 1
             /\ shoppingItems' = MapSet(shoppingItems, item.id, item)
             /\ Logs([userId |-> userId, action |-> "add_shopping_item",
                      entityId |-> Some(item.id),
                      entityType |-> Some("shopping_item"),
                      details |-> Some("Added " \o item.item \o " to shopping list")])
             /\ Responds("POST /api/shopping-list", userId, item.id, 201, <<item>>)
             /\ UNCHANGED <<userVars, recipeVars, ingredientVars, instructionVars,
                            reviewVars, favorites, mealPlanVars, now>>

\* app.put("/api/shopping-list/:id"): the item is looked for among the
\* user's items by its id field, and updated under the key id
PutShoppingItem(userId, id, body) ==
    IF Find(getShoppingList(userId), id) = Null
    THEN /\ Responds("PUT /api/shopping-list/:id", userId, id, 404, <<>>)
         /\ StoreUnchanged
         /\ UNCHANGED now
    ELSE LET stored == MapGet(shoppingItems, id)
             updatedItem == IF stored = Null THEN Null
                            ELSE Some(Merge(stored[1], body))
         IN  /\ shoppingItems' = IF stored = Null THEN shoppingItems
                                 ELSE MapSet(shoppingItems, id, updatedItem[1])
             /\ Responds("PUT /api/shopping-list/:id", userId, id, 200, updatedItem)
             /\ UNCHANGED <<userVars, recipeVars, ingredientVars, instructionVars,
                            reviewVars, favorites, shoppingItemCurrentId,
                            mealPlanVars, activityVars, now>>

\* app.delete("/api/shopping-list/:id")
DeleteShoppingItem(userId, id) ==
    IF Find(getShoppingList(userId), id) = Null
    THEN /\ Responds("DELETE /api/shopping-list/:id", userId, id, 404, <<>>)
         /\ StoreUnchanged
         /\ UNCHANGED now
    ELSE /\ shoppingItems' = MapDelete(shoppingItems, id)
         /\ Responds("DELETE /api/shopping-list/:id", userId, id, 204, <<>>)
         /\ UNCHANGED <<userVars, recipeVars, ingredientVars, instructionVars,
                        reviewVars, favorites, shoppingItemCurrentId,
                        mealPlanVars, activityVars, now>>

\* app.delete("/api/shopping-list")
ClearShoppingItems(userId) ==
    /\ shoppingItems' =
           DeleteEach(shoppingItems, FilterBy(MapValues(shoppingItems), "userId", userId))
    /\ Logs([userId |-> userId, action |-> "clear_shopping_list",
             details |-> Some("Cleared shopping list")])
    /\ Responds("DELETE /api/shopping-list", userId, 0, 204, <<>>)
    /\ UNCHANGED <<userVars, recipeVars, ingredientVars, instructionVars,
                   reviewVars, favorites, shoppingItemCurrentId, mealPlanVars, now>>

\* ingredients.map(ingredient => storage.addToShoppingList({...})): the
\* calls are made in order, each taking the next id
RECURSIVE AddEach(_, _, _, _)
AddEach(items, id, userId, list) ==
    IF list = <<>> THEN items
    ELSE LET ingredient == Head(list)
             item == StoredItem([userId |-> userId, item |-> ingredient.name,
                                 quantity |-> Some(ingredient.quantity),
                                 unit |-> ingredient.unit,
                                 recipeId |-> Some(ingredient.recipeId),
                                 checked |-> FALSE], id)
         IN  AddEach(MapSet(items, id, item), id + 1, userId, Tail(list))

\* app.post("/api/recipes/:id/add-to-shopping-list")
PostRecipeToShoppingList(userId, recipeId) ==
    IF getRecipe(recipeId) = Null
    THEN /\ Responds("POST /api/recipes/:id/add-to-shopping-list", userId,
                     recipeId, 404, <<>>)
         /\ StoreUnchanged
         /\ UNCHANGED now
    ELSE LET list == getIngredientsByRecipe(recipeId)
             added == AddEach(<<>>, shoppingItemCurrentId, userId, list)
         IN  /\ shoppingItemCurrentId + Len(list) <= MaxItems + 1
             /\ shoppingItemCurrentId' = shoppingItemCurrentId + Len(list)
             /\ shoppingItems' =
                    AddEach(shoppingItems, shoppingItemCurrentId, userId, list)
             /\ Logs([userId |-> userId, action |-> "add_recipe_to_shopping_list",
                      entityId |-> Some(recipeId), entityType |-> Some("recipe"),
                      details |-> Some("Added all ingredients from recipe "
                                       \o ToString(recipeId) \o " ("
                                       \o getRecipe(recipeId)[1].title
                                       \o ") to shopping list")])
             /\ Responds("POST /api/recipes/:id/add-to-shopping-list", userId,
                         recipeId, 201, MapValues(added))
             /\ UNCHANGED <<userVars, recipeVars, ingredientVars, instructionVars,
                            reviewVars, favorites, mealPlanVars, now>>

\* bodies of POST /api/meal-plans: a plan of recipe 1; one with a userId of
\* its own; one of a recipe that is not stored; one without meal type
MealPlanBodies ==
    {[recipeId |-> 1, plannedDate |-> 0, mealType |-> "lunch"],
     [recipeId |-> 1, plannedDate |-> 0, mealType |-> "dinner", userId |-> 2],
     [recipeId |-> 9, plannedDate |-> 0, mealType |-> "lunch"],
     [recipeId |-> 1, plannedDate |-> 0]}

\* bodies of PUT /api/meal-plans/:id
MealPlanPutBodies == {[mealType |-> "snack"], [userId |-> 2], [id |-> 2]}

\* app.post("/api/meal-plans")
PostMealPlan(userId, body) ==
    IF ~({"recipeId", "plannedDate", "mealType"} \subseteq DOMAIN body)
    THEN /\ Responds("POST /api/meal-plans", userId, 0, 400, <<>>)
         /\ StoreUnchanged
         /\ UNCHANGED now
    ELSE IF getRecipe(body.recipeId) = Null
    THEN /\ Responds("POST /api/meal-plans", userId, 0, 404, <<>>)
         /\ StoreUnchanged
         /\ UNCHANGED now
    ELSE LET mealPlanData ==
                 Merge(Strip(body, {"recipeId", "plannedDate", "mealType", "notes"}),
                       [userId |-> userId])
             mealPlan == Merge(mealPlanData,
                               [id |-> mealPlanCurrentId, createdAt |-> now,
                                notes |-> OrNullStr(mealPlanData, "notes")])
         IN  /\ mealPlanCurrentId <= MaxMealPlans
             /\ mealPlanCurrentId' = mealPlanCurrentId + 1
             /\ mealPlans' = MapSet(mealPlans, mealPlan.id, mealPlan)
             /\ Logs([userId |-> userId, action |-> "create_meal_plan",
                      entityId |-> Some(mealPlan.id),
                      entityType |-> Some("meal_plan"),
                      details |-> Some("Added " \o getRecipe(body.recipeId)[1].title
                                       \o " to meal plan for "
                                       \o ToString(mealPlan.plannedDate) \o " ("
                                       \o mealPlan.mealType \o ")")])
             /\ Responds("POST /api/meal-plans", userId, mealPlan.id, 201,
                         <<mealPlan>>)
             /\ UNCHANGED <<userVars, recipeVars, ingredientVars, instructionVars,
                            reviewVars, favorites, shoppingVars, now>>

\* app.put("/api/meal-plans/:id")
PutMealPlan(userId, id, body) ==
    LET existingMealPlan == Find(getMealPlans(userId), id)
    IN  IF existingMealPlan = Null
        THEN /\ Responds("PUT /api/meal-plans/:id", userId, id, 404, <<>>)
             /\ StoreUnchanged
             /\ UNCHANGED now
        ELSE LET stored == MapGet(mealPlans, id)
                 updatedMealPlan == IF stored = Null THEN Null
                                    ELSE Some(Merge(stored[1], body))
             IN  /\ mealPlans' = IF stored = Null THEN mealPlans
                                 ELSE MapSet(mealPlans, id, updatedMealPlan[1])
                 /\ Logs([userId |-> userId, action |-> "update_meal_plan",
                          entityId |-> Some(id), entityType |-> Some("meal_plan"),
                          details |-> Some("Updated meal plan for "
                                 \o ToString(existingMealPlan[1].plannedDate))])
                 /\ Responds("PUT /api/meal-plans/:id", userId, id, 200,
                             updatedMealPlan)
                 /\ UNCHANGED <<userVars, recipeVars, ingredientVars,
                                instructionVars, reviewVars, favorites,
                                shoppingVars, mealPlanCurrentId, now>>

\* app.delete("/api/meal-plans/:id")
DeleteMealPlanOf(userId, id) ==
    LET existingMealPlan == Find(getMealPlans(userId), id)
    IN  IF existingMealPlan = Null
        THEN /\ Responds("DELETE /api/meal-plans/:id", userId, id, 404, <<>>)
             /\ StoreUnchanged
             /\ UNCHANGED now
        ELSE /\ mealPlans' = MapDelete(mealPlans, id)
             /\ Logs([userId |-> userId, action |-> "delete_meal_plan",
                      entityId |-> Some(existingMealPlan[1].recipeId),
                      entityType |-> Some("recipe"),
                      details |-> Some("Removed recipe from meal plan for "
                                 \o ToString(existingMealPlan[1].plannedDate))])
             /\ Responds("DELETE /api/meal-plans/:id", userId, id, 204, <<>>)
             /\ UNCHANGED <<userVars, recipeVars, ingredientVars, instructionVars,
                            reviewVars, favorites, shoppingVars,
                            mealPlanCurrentId, now>>

\* app.delete("/api/reviews/:id")
DeleteReviewOf(userId, id) ==
    LET existingReview == Find(getReviewsByUser(userId), id)
    IN  IF existingReview = Null
        THEN /\ Responds("DELETE /api/reviews/:id", userId, id, 404, <<>>)
             /\ StoreUnchanged
             /\ UNCHANGED now
        ELSE /\ reviews' = MapDelete(reviews, id)
             /\ Logs([userId |-> userId, action |-> "delete_review",
                      entityId |-> Some(existingReview[1].recipeId),
                      entityType |-> Some("recipe"),
                      details |-> Some("Deleted review for recipe "
                                 \o ToString(existingReview[1].recipeId))])
             /\ Responds("DELETE /api/reviews/:id", userId, id, 204, <<>>)
             /\ UNCHANGED <<userVars, recipeVars, ingredientVars, instructionVars,
                            reviewCurrentId, favorites, shoppingVars,
                            mealPlanVars, now>>

\* bodies of PUT /api/profile
ProfileBodies == {[name |-> "m"], [name |-> "m", password |-> "q"], [id |-> 2]}

\* app.put("/api/profile"): the body without its password goes to updateUser
PutProfile(userId, body) ==
    LET updateData == Strip(body, (DOMAIN body) \ {"password"})
        stored == MapGet(users, userId)
    IN  IF stored = Null
        THEN /\ Responds("PUT /api/profile", userId, 0, 404, <<>>)
             /\ StoreUnchanged
             /\ UNCHANGED now
        ELSE LET updatedUser == Merge(stored[1], updateData)
                 userWithoutPassword ==
                     Strip(updatedUser, (DOMAIN updatedUser) \ {"password"})
             IN  /\ users' = MapSet(users, userId, updatedUser)
                 /\ Logs([userId |-> userId, action |-> "update_profile",
                          details |-> Some("Updated user profile")])
                 /\ Responds("PUT /api/profile", userId, 0, 200,
                             <<userWithoutPassword>>)
                 /\ UNCHANGED <<userCurrentId, recipeVars, ingredientVars,
                                instructionVars, reviewVars, favorites,
                                shoppingVars, mealPlanVars, now>>

\* bodies of PUT /api/reviews/:id that name another user or another id
ReviewOwnerBodies == {[rating |-> 5], [userId |-> 2]}

PostShoppingItemRequest ==
    \E u \in UserIds : PostShoppingItem(u, [item |-> "eggs", userId |-> 2, id |-> 1])
PutShoppingItemRequest ==
    \E u \in UserIds, id \in 1..MaxItems, b \in {[checked |-> TRUE], [userId |-> 2]} :
        PutShoppingItem(u, id, b)
DeleteShoppingItemRequest ==
    \E u \in UserIds, id \in 1..MaxItems : DeleteShoppingItem(u, id)
PostMealPlanRequest ==
    \E u \in UserIds : PostMealPlan(u, [recipeId |-> 1, plannedDate |-> 0, mealType |-> "lunch"])
PutMealPlanRequest ==
    \E u \in UserIds, id \in 1..MaxMealPlans, b \in {[mealType |-> "snack"], [userId |-> 2]} :
        PutMealPlan(u, id, b)
PostOneReviewRequest ==
    \E u \in UserIds : PostReview(u, 1, [rating |-> 4, comment |-> "c"])
PutOwnReviewRequest ==
    \E u \in UserIds, id \in 1..MaxReviews, b \in ReviewOwnerBodies :
        PutReview(u, id, b)

\* the one recipe the meal plans and the reviews are about
AddOneRecipe == recipeCurrentId = 1 /\ AddRecipe

NextIsolation ==
    \/ AddOneRecipe
    \/ PostShoppingItemRequest \/ PutShoppingItemRequest
    \/ DeleteShoppingItemRequest
    \/ PostMealPlanRequest \/ PutMealPlanRequest
    \/ PostOneReviewRequest \/ PutOwnReviewRequest

SpecIsolation == Init /\ [][NextIsolation]_vars

\* the requests of the per-user lists
ListRoutes ==
    {"POST /api/shopping-list", "PUT /api/shopping-list/:id",
     "DELETE /api/shopping-list/:id", "POST /api/meal-plans",
     "PUT /api/meal-plans/:id", "POST /api/recipes/:id/reviews",
     "PUT /api/reviews/:id"}

C25_Step ==
    \A b \in UserIds :
        (ret'.op \in ListRoutes /\ ret'.a1 # b) =>
            /\ ShoppingListOf(shoppingItems', b) = ShoppingListOf(shoppingItems, b)
            /\ MealPlansOf(mealPlans', b) = MealPlansOf(mealPlans, b)
            /\ ReviewsByUserOf(reviews', b) = ReviewsByUserOf(reviews, b)

\* C25: the per-user lists are isolated: for distinct users A and B, the
\* results of getShoppingList(B), getMealPlans(B) and getReviewsByUser(B)
\* change only by requests authenticated as B; no request authenticated as
\* A, whatever its body (a userId included), adds, changes or removes an
\* item of B's lists.
C25_UserIsolation == [][C25_Step]_vars

(***************************************************************************)
(* PUT and DELETE /api/recipes/:id                                         *)
(***************************************************************************)
\* bodies of PUT /api/recipes/:id: a title, or another owner
RecipePutBodies == {[title |-> "Pie"], [userId |-> 1], [userId |-> 2]}

\* app.put("/api/recipes/:id")
PutRecipe(userId, id, body) ==
    LET existingRecipe == getRecipe(id)
    IN  IF existingRecipe = Null
        THEN /\ Responds("PUT /api/recipes/:id", userId, id, 404, <<>>)
             /\ StoreUnchanged
             /\ UNCHANGED now
        ELSE IF existingRecipe[1].userId # userId
        THEN /\ Responds("PUT /api/recipes/:id", userId, id, 403, <<>>)
             /\ StoreUnchanged
             /\ UNCHANGED now
        ELSE LET updatedRecipe == Merge(existingRecipe[1], body)
             IN  /\ recipes' = MapSet(recipes, id, updatedRecipe)
                 /\ Responds("PUT /api/recipes/:id", userId, id, 200,
                             <<updatedRecipe>>)
                 /\ UNCHANGED <<userVars, recipeCurrentId, ingredientVars,
                                instructionVars, reviewVars, favorites,
                                shoppingVars, mealPlanVars, activityVars, now>>

\* app.delete("/api/recipes/:id")
DeleteRecipeOf(userId, id) ==
    LET existingRecipe == getRecipe(id)
    IN  IF existingRecipe = Null
        THEN /\ Responds("DELETE /api/recipes/:id", userId, id, 404, <<>>)
             /\ StoreUnchanged
             /\ UNCHANGED now
        ELSE IF existingRecipe[1].userId # userId
        THEN /\ Responds("DELETE /api/recipes/:id", userId, id, 403, <<>>)
             /\ StoreUnchanged
             /\ UNCHANGED now
        ELSE /\ recipes' = MapDelete(recipes, id)
             /\ Responds("DELETE /api/recipes/:id", userId, id, 204, <<>>)
             /\ UNCHANGED <<userVars, recipeCurrentId, ingredientVars,
                            instructionVars, reviewVars, favorites,
                            shoppingVars, mealPlanVars, activityVars, now>>

\* a recipe as POST /api/recipes stores it for the authenticated user
CreateOwnedRecipe ==
    \E u \in UserIds :
        createRecipe([title |-> "Soup", description |-> "d", imageUrl |-> "i",
                      prepTime |-> 5, cookTime |-> 10, difficulty |-> "Easy",
                      userId |-> u])

PutRecipeRequest ==
    \E u \in UserIds, id \in 1..(MaxRecipes + 1), b \in RecipePutBodies :
        PutRecipe(u, id, b)
DeleteRecipeRequest ==
    \E u \in UserIds, id \in 1..(MaxRecipes + 1) : DeleteRecipeOf(u, id)

NextOwnedRecipes == CreateOwnedRecipe \/ PutRecipeRequest \/ DeleteRecipeRequest

SpecOwnedRecipes == Init /\ [][NextOwnedRecipes]_vars

RecipeRoutes == {"PUT /api/recipes/:id", "DELETE /api/recipes/:id"}

C26_Step ==
    /\ ret'.op \in RecipeRoutes =>
        LET userId == ret'.a1
            id == ret'.a2
            status == ret'.out[1].status
        IN  /\ ~MapHas(recipes, id) => status = 404
            /\ (MapHas(recipes, id) /\ MapGet(recipes, id)[1].userId # userId)
                   => status = 403
            /\ status \in {403, 404} => recipes' = recipes
            /\ recipes' # recipes =>
                   (MapHas(recipes, id) /\ MapGet(recipes, id)[1].userId = userId)
    /\ \A id \in 1..(MaxRecipes + 1) :
           (MapHas(recipes, id) /\ MapHas(recipes', id)) =>
               MapGet(recipes', id)[1].userId = MapGet(recipes, id)[1].userId

\* C26: PUT and DELETE /api/recipes/:id are answered 404 when no local
\* recipe has the id and 403 when the recipe's userId is not the
\* authenticated user's, and then the recipes are unchanged; only a request
\* of the recipe's owner changes or removes it; and a recipe's userId stays
\* the id of the user who created it, whatever requests are made.
C26_RecipeOwnership == [][C26_Step]_vars

(***************************************************************************)
(* The id field of the stored records, under the PUT handlers.             *)
(***************************************************************************)
\* a body of a PUT that names the id of the record
KeyBodies == {[id |-> 2]}

AddUser ==
    createUser([username |-> <<"a">>, email |-> <<"a">>, name |-> "n",
                password |-> "p"])

PutProfileRequest == \E b \in ProfileBodies : PutProfile(1, b)

PutKeyRequest ==
    \E u \in UserIds, id \in 1..2, b \in KeyBodies :
        \/ PutRecipe(u, id, b)
        \/ PutReview(u, id, b)
        \/ PutShoppingItem(u, id, b)
        \/ PutMealPlan(u, id, b)

NextKeys ==
    \/ AddUser \/ AddOneRecipe \/ PostOneReviewRequest
    \/ PostShoppingItemRequest \/ PostMealPlanRequest
    \/ PutProfileRequest \/ PutKeyRequest

SpecKeys == Init /\ [][NextKeys]_vars

IdIsKey(stored) == \A i \in 1..Len(stored) : stored[i].v.id = stored[i].k

DistinctIds(list) ==
    \A i, j \in 1..Len(list) : list[i].id = list[j].id => i = j

\* C27: in every reachable state, whatever requests were made (PUT requests
\* with arbitrary fields in the body included), each record of the users,
\* recipes, reviews, shopping items and meal plans has an id field equal to
\* the key it is stored under, so that get(id).id = id for every stored id
\* and every list query returns records with pairwise distinct ids.
C27_IdIsKey ==
    /\ IdIsKey(users) /\ IdIsKey(recipes) /\ IdIsKey(reviews)
    /\ IdIsKey(shoppingItems) /\ IdIsKey(mealPlans)
    /\ DistinctIds(getRecipes)
    /\ \A u \in UserIds :
        /\ DistinctIds(getShoppingList(u))
        /\ DistinctIds(getMealPlans(u))
        /\ DistinctIds(getReviewsByUser(u))

(***************************************************************************)
(* The requests that write the activity log.                               *)
(***************************************************************************)
AddIngredient ==
    /\ ingredientCurrentId = 1
    /\ createIngredient([recipeId |-> 1, name |-> "salt", quantity |-> "1"])

AddOneUser == userCurrentId = 1 /\ AddUser

\* the requests are followed until MaxLogged of them have been logged
MaxLogged == 2
Logged == activityLogCurrentId - 1

FavoriteRequests ==
    /\ Logged < MaxLogged
    /\ \E b \in {[recipeId |-> 1], [comment |-> "c"]} :
           PostFavorite(1, b) \/ DeleteFavorite(1, 1)

ReviewRequests ==
    /\ Logged < MaxLogged
    /\ \/ \E b \in {[rating |-> 4, comment |-> "c"], [comment |-> "c"]} :
              PostReview(1, 1, b)
       \/ \E u \in UserIds :
              PutReview(u, 1, [rating |-> 5]) \/ DeleteReviewOf(u, 1)

ShoppingRequests ==
    /\ Logged < MaxLogged
    /\ \/ \E b \in {[item |-> "milk"], [quantity |-> Some("1")]} :
              PostShoppingItem(1, b)
       \/ \E r \in RecipeIds : PostRecipeToShoppingList(1, r)
       \/ ClearShoppingItems(1)

MealPlanRequests ==
    /\ Logged < MaxLogged
    /\ \/ \E b \in MealPlanBodies : PostMealPlan(1, b)
       \/ \E u \in UserIds :
              PutMealPlan(u, 1, [mealType |-> "snack"]) \/ DeleteMealPlanOf(u, 1)

ProfileRequests ==
    /\ Logged < MaxLogged
    /\ \E u \in UserIds : PutProfile(u, [name |-> "m", password |-> "q"])

NextLogged ==
    \/ AddOneUser \/ AddOneRecipe \/ AddIngredient
    \/ FavoriteRequests \/ ReviewRequests \/ ShoppingRequests
    \/ MealPlanRequests \/ ProfileRequests

SpecLogged == Init /\ [][NextLogged]_vars

LoggedRoutes ==
    {"POST /api/favorites", "DELETE /api/favorites/:recipeId",
     "POST /api/recipes/:id/reviews", "PUT /api/reviews/:id",
     "DELETE /api/reviews/:id", "POST /api/shopping-list",
     "POST /api/recipes/:id/add-to-shopping-list", "DELETE /api/shopping-list",
     "POST /api/meal-plans", "PUT /api/meal-plans/:id",
     "DELETE /api/meal-plans/:id", "PUT /api/profile"}

\* the creates whose log entry names the record the request has just stored
NamesCreated == [x \in {"POST /api/shopping-list"} |-> "add_shopping_item"]
                  @@ [x \in {"POST /api/meal-plans"} |-> "create_meal_plan"]

C28_Step ==
    ret'.op \in LoggedRoutes =>
        LET status == ret'.out[1].status
            n == Len(activityLogs)
        IN  /\ status \in {200, 201, 204, 400, 404}
            /\ status < 400 =>
                /\ Len(activityLogs') = n + 1
                /\ SubSeq(activityLogs', 1, n) = activityLogs
                /\ activityLogs'[n + 1].v.userId = ret'.a1
                /\ ret'.op \in DOMAIN NamesCreated =>
                    /\ activityLogs'[n + 1].v.action = NamesCreated[ret'.op]
                    /\ activityLogs'[n + 1].v.entityId = Some(ret'.out[2].id)
            /\ status >= 400 => StoreUnchanged

\* C28: each request that completes among add and remove favorite, create,
\* update and delete review, add shopping-list item, add a recipe's
\* ingredients to the shopping list, clear shopping list, create, update
\* and delete meal plan, and update profile appends exactly one entry to
\* the activity log, of the authenticated user, after the change itself (the
\* entry of a create names the record just stored); a request answered 400,
\* 403 or 404 appends no entry and changes nothing.
C28_OneLogEntryEach == [][C28_Step]_vars

\* the ingredients of a recipe were added to a shopping list, and the last
\* entry of the log says so
C28_Witness ==
    /\ ret.op = "POST /api/recipes/:id/add-to-shopping-list"
    /\ ret.out[1].status = 201 /\ Len(ret.out) = 2
    /\ activityLogs # <<>>
    /\ activityLogs[Len(activityLogs)].v.action = "add_recipe_to_shopping_list"
    /\ activityLogs[Len(activityLogs)].v.userId = ret.a1

(***************************************************************************)
(* app.post("/api/recipes"), one step for each stretch between two awaits. *)
(***************************************************************************)
RecipeKeys ==
    {"title", "description", "imageUrl", "prepTime", "cookTime", "difficulty",
     "calories", "protein", "fats", "carbs", "servings", "rating", "userId",
     "source", "cookingTips", "tags"}
RecipeRequired ==
    {"title", "description", "imageUrl", "prepTime", "cookTime", "difficulty",
     "userId"}

\* insertRecipeSchema accepts the value
IsRecipe(r) ==
    /\ RecipeRequired \subseteq DOMAIN r
    /\ r.prepTime \in Nat /\ r.cookTime \in Nat /\ r.userId \in Nat

\* insertIngredientSchema.omit({ recipeId: true }) accepts the value
IsIngredient(i) == {"name", "quantity"} \subseteq DOMAIN i

\* insertInstructionSchema.omit({ recipeId: true }) accepts the value
IsInstruction(i) == {"stepNumber", "description"} \subseteq DOMAIN i /\ i.stepNumber \in Nat

\* { ...req.body, recipe: { ...req.body.recipe, userId } }
Combined(userId, body) ==
    Merge(body, [recipe |-> Merge(IF "recipe" \in DOMAIN body THEN body.recipe
                                  ELSE <<>>,
                                  [userId |-> userId])])

\* createRecipeSchema.parse(payload) does not throw
Parses(payload) ==
    /\ {"ingredients", "instructions"} \subseteq DOMAIN payload
    /\ IsRecipe(payload.recipe)
    /\ \A k \in 1..Len(payload.ingredients) : IsIngredient(payload.ingredients[k])
    /\ \A k \in 1..Len(payload.instructions) : IsInstruction(payload.instructions[k])

\* what createRecipeSchema.parse(payload) returns: unknown keys are dropped
Parsed(payload) ==
    [recipe |-> Strip(payload.recipe, RecipeKeys),
     ingredients |-> [k \in 1..Len(payload.ingredients) |->
                         Strip(payload.ingredients[k], {"name", "quantity", "unit"})],
     instructions |-> [k \in 1..Len(payload.instructions) |->
                          Strip(payload.instructions[k], {"stepNumber", "description"})]]

\* a handler that numbers the children by the newest recipe of the store
LatestRecipeId(request) == recipeCurrentId - 1

\* recipeId: recipe.id, the recipe being the one createRecipe returned to
\* this request
NewRecipeId(request) == request.recipe[1].id

\* the records of data.map(x => storage.create...({ ...x, recipeId })): the
\* calls are made in order, each taking the next id
Children(data, id, recipeId, nullable) ==
    [k \in 1..Len(data) |->
        Merge(Merge(data[k], [recipeId |-> recipeId]),
              Merge([id |-> id + k - 1],
                    [f \in nullable |-> OrNullStr(data[k], f)]))]

RECURSIVE SetEach(_, _)
SetEach(stored, records) ==
    IF records = <<>> THEN stored
    ELSE SetEach(MapSet(stored, Head(records).id, Head(records)), Tail(records))

\* the handler up to await storage.createRecipe(recipeData): the body is
\* parsed and, when it parses, createRecipe has stored the recipe
StartPostRecipe(userId, body) ==
    LET payload == Combined(userId, body)
        request == [route |-> "POST /api/recipes", userId |-> userId,
                    body |-> body, pc |-> "answered", status |-> 400,
                    recipe |-> Null, ingredients |-> <<>>, instructions |-> <<>>]
    IN  /\ Len(inFlight) < MaxRequests
        /\ IF ~Parses(payload)
           THEN /\ inFlight' = Append(inFlight, request)
                /\ StoreUnchanged
           ELSE LET id == recipeCurrentId
                    recipe == StoredRecipe(Parsed(payload).recipe, id)
                IN  /\ recipeCurrentId' = recipeCurrentId + 1
                    /\ recipes' = MapSet(recipes, id, recipe)
                    /\ inFlight' = Append(inFlight,
                          [request EXCEPT !.pc = "createRecipe", !.status = 0,
                                          !.recipe = Some(recipe)])
                    /\ UNCHANGED <<userVars, ingredientVars, instructionVars,
                                   reviewVars, favorites, shoppingVars,
                                   mealPlanVars, activityVars>>
        /\ UNCHANGED <<now, ret>>

\* from await storage.createRecipe(...) to await Promise.all(ingredients)
CreatedPostRecipe(k) ==
    LET request == inFlight[k]
        data == Parsed(Combined(request.userId, request.body)).ingredients
        created == Children(data, ingredientCurrentId, NewRecipeId(request), {"unit"})
    IN  /\ request.pc = "createRecipe"
        /\ ingredientCurrentId' = ingredientCurrentId + Len(data)
        /\ ingredients' = SetEach(ingredients, created)
        /\ inFlight' = [inFlight EXCEPT ![k].pc = "createIngredient",
                                        ![k].ingredients = created]
        /\ UNCHANGED <<userVars, recipeVars, instructionVars, reviewVars,
                       favorites, shoppingVars, mealPlanVars, activityVars,
                       now, ret>>

\* from await Promise.all(ingredients) to await Promise.all(instructions)
IngredientsPostRecipe(k) ==
    LET request == inFlight[k]
        data == Parsed(Combined(request.userId, request.body)).instructions
        created == Children(data, instructionCurrentId, NewRecipeId(request), {})
    IN  /\ request.pc = "createIngredient"
        /\ instructionCurrentId' = instructionCurrentId + Len(data)
        /\ instructions' = SetEach(instructions, created)
        /\ inFlight' = [inFlight EXCEPT ![k].pc = "createInstruction",
                                        ![k].instructions = created]
        /\ UNCHANGED <<userVars, recipeVars, ingredientVars, reviewVars,
                       favorites, shoppingVars, mealPlanVars, activityVars,
                       now, ret>>

\* from await Promise.all(instructions) to res.status(201).json(...)
InstructionsPostRecipe(k) ==
    LET request == inFlight[k]
    IN  /\ request.pc = "createInstruction"
        /\ inFlight' = [inFlight EXCEPT ![k] = Answered(request, 201)]
        /\ StoreUnchanged
        /\ UNCHANGED <<now, ret>>

\* bodies of POST /api/recipes: two complete ones (the first names another
\* owner, an id and a recipeId of its own), one whose recipe has no title,
\* one whose second ingredient has no quantity, one without instructions
SoupRecipe ==
    [title |-> "Soup", description |-> "d", imageUrl |-> "i", prepTime |-> 5,
     cookTime |-> 10, difficulty |-> "Easy"]
RecipeBodies ==
    {[recipe |-> Merge(SoupRecipe, [userId |-> 2, id |-> 9]),
      ingredients |-> <<[name |-> "salt", quantity |-> "1", recipeId |-> 7],
                        [name |-> "oil", quantity |-> "2", unit |-> Some("tbsp")]>>,
      instructions |-> <<[stepNumber |-> 1, description |-> "stir", recipeId |-> 7]>>],
     [recipe |-> SoupRecipe,
      ingredients |-> <<[name |-> "rice", quantity |-> "1"]>>,
      instructions |-> <<>>],
     [recipe |-> Strip(SoupRecipe, {"description", "imageUrl", "prepTime",
                                    "cookTime", "difficulty"}),
      ingredients |-> <<[name |-> "salt", quantity |-> "1"]>>,
      instructions |-> <<[stepNumber |-> 1, description |-> "stir"]>>],
     [recipe |-> SoupRecipe,
      ingredients |-> <<[name |-> "salt", quantity |-> "1"], [name |-> "oil"]>>,
      instructions |-> <<[stepNumber |-> 1, description |-> "stir"]>>],
     [recipe |-> SoupRecipe,
      ingredients |-> <<[name |-> "salt", quantity |-> "1"]>>]}

StartPostRecipeRequest ==
    \E u \in UserIds, b \in RecipeBodies : StartPostRecipe(u, b)

StepPostRecipeRequest ==
    \E k \in 1..Len(inFlight) :
        CreatedPostRecipe(k) \/ IngredientsPostRecipe(k) \/ InstructionsPostRecipe(k)

NextPostRecipes == StartPostRecipeRequest \/ StepPostRecipeRequest

SpecPostRecipes == Init /\ [][NextPostRecipes]_vars

\* the records of a list that a map holds under their ids
AllStored(stored, records) ==
    \A k \in 1..Len(records) : MapGet(stored, records[k].id) = Some(records[k])

\* the records of a map that carry a given recipeId
OfRecipe(stored, recipeId) ==
    SelectSeq(MapValues(stored), LAMBDA x : x.recipeId = recipeId)

C29_Request(request) ==
    IF ~Parses(Combined(request.userId, request.body))
    THEN /\ request.status = 400
         /\ request.recipe = Null
         /\ request.ingredients = <<>> /\ request.instructions = <<>>
    ELSE LET recipe == request.recipe[1]
             data == Parsed(Combined(request.userId, request.body))
         IN  /\ request.status \in {0, 201}
             /\ recipe.userId = request.userId
             /\ MapGet(recipes, recipe.id) = Some(recipe)
             /\ \A k \in 1..Len(request.ingredients) :
                    request.ingredients[k].recipeId = recipe.id
             /\ \A k \in 1..Len(request.instructions) :
                    request.instructions[k].recipeId = recipe.id
             /\ AllStored(ingredients, request.ingredients)
             /\ AllStored(instructions, request.instructions)
             /\ OfRecipe(ingredients, recipe.id) = request.ingredients
             /\ OfRecipe(instructions, recipe.id) = request.instructions
             /\ request.status = 201 =>
                    /\ Len(request.ingredients) = Len(data.ingredients)
                    /\ Len(request.instructions) = Len(data.instructions)

C29_State ==
    /\ \A k \in 1..Len(inFlight) : C29_Request(inFlight[k])
    /\ \A j, k \in 1..Len(inFlight) :
           (j # k /\ inFlight[j].recipe # Null /\ inFlight[k].recipe # Null)
               => inFlight[j].recipe[1].id # inFlight[k].recipe[1].id
    /\ Len(recipes) = Len(SelectSeq(inFlight, LAMBDA r : r.recipe # Null))

C29_Step ==
    (Len(inFlight') > Len(inFlight)
        /\ inFlight'[Len(inFlight')].status = 400) => StoreUnchanged

\* C29: a POST /api/recipes whose combined payload fails validation is
\* answered 400 and creates no recipe, ingredient or instruction; one whose
\* payload passes creates exactly one recipe, owned by the authenticated
\* user whatever userId the body names, and every ingredient and instruction
\* the request creates carries the id of that recipe, also when the steps of
\* several such requests interleave at the awaits.
C29_AllOrNothing == [][C29_Step]_vars /\ []C29_State

\* two requests were answered 201 after their steps interleaved: the second
\* stored its recipe before the first stored its ingredients
C29_Witness ==
    /\ Len(inFlight) = 2
    /\ inFlight[1].status = 201 /\ inFlight[2].status = 201
    /\ "userId" \in DOMAIN inFlight[1].body.recipe
    /\ inFlight[1].body.recipe.userId = 2 /\ inFlight[1].userId = 1
    /\ inFlight[1].ingredients # <<>>
    /\ inFlight[1].ingredients[1].id > 1
    /\ inFlight[2].recipe[1].id = 2

(***************************************************************************)
(* fetchWithRetry and searchIngredients of                                 *)
(* src/server/spoonacular-service.ts, one step for each fetch, each        *)
(* RETRY_DELAY and the return.                                             *)
(***************************************************************************)
MAX_RETRIES == 3

\* how one pass through the try block ends: fetch rejects, the response is
\* not ok, its body is not JSON, or the body is returned (with or without a
\* results array)
AttemptOutcomes ==
    {"network error", "HTTP error", "not JSON", "results", "no results"}

\* the try block reaches return await response.json()
Succeeds(outcome) == outcome \in {"results", "no results"}

\* what response.json() gives
BodyOf(outcome) ==
    IF outcome = "results"
    THEN [results |-> <<[id |-> 1, name |-> "salt", image |-> "salt.jpg"]>>]
    ELSE [number |-> 0]

\* a catch block that retries once more
RetriesLeftOrNone(retries) == retries >= 0

\* if (retries > 0)
RetriesLeft(retries) == retries > 0

\* the call of searchIngredients up to its first await: without API_KEY it
\* returns [] at once, with it fetchWithRetry(url) starts with
\* retries = MAX_RETRIES
CallSearchIngredients(apiKey) ==
    /\ inFlight = <<>>
    /\ IF ~apiKey
       THEN /\ ret' = Return("searchIngredients", 0, 0, TRUE,
                             <<[apiKey |-> FALSE, attempts |-> <<>>, error |-> Null]>>)
            /\ UNCHANGED inFlight
       ELSE /\ inFlight' = <<[route |-> "searchIngredients", pc |-> "fetch",
                              retries |-> MAX_RETRIES, attempts |-> <<>>,
                              error |-> Null, data |-> Null]>>
            /\ UNCHANGED ret
    /\ StoreUnchanged
    /\ UNCHANGED now

\* one pass through the try block of fetchWithRetry, and the catch block up
\* to its await or its throw
Fetch(k, outcome) ==
    LET call == inFlight[k]
        attempts == Append(call.attempts, outcome)
        error == [attempt |-> Len(attempts), message |-> outcome]
    IN  /\ call.route = "searchIngredients" /\ call.pc = "fetch"
        /\ inFlight' = [inFlight EXCEPT ![k] =
              IF Succeeds(outcome)
              THEN [call EXCEPT !.pc = "returned", !.attempts = attempts,
                                !.data = Some(BodyOf(outcome))]
              ELSE IF RetriesLeft(call.retries)
              THEN [call EXCEPT !.pc = "RETRY_DELAY", !.attempts = attempts]
              ELSE [call EXCEPT !.pc = "thrown", !.attempts = attempts,
                                !.error = Some(error)]]
        /\ StoreUnchanged
        /\ UNCHANGED <<now, ret>>

\* the timer of RETRY_DELAY fires: return fetchWithRetry(url, retries - 1)
Retry(k) ==
    LET call == inFlight[k]
    IN  /\ call.route = "searchIngredients" /\ call.pc = "RETRY_DELAY"
        /\ inFlight' = [inFlight EXCEPT ![k].pc = "fetch",
                                        ![k].retries = call.retries - 1]
        /\ StoreUnchanged
        /\ UNCHANGED <<now, ret>>

\* data.results.map(...), which throws when the body has no results
Results(data) ==
    IF "results" \notin DOMAIN data THEN Thrown
    ELSE Value([k \in 1..Len(data.results) |->
                   [id |-> data.results[k].id, name |-> data.results[k].name,
                    image |-> data.results[k].image, amount |-> 0, unit |-> ""]])

\* the rest of searchIngredients: the mapped results, or [] from the catch
ReturnSearchIngredients(k) ==
    LET call == inFlight[k]
        try == IF call.pc = "thrown" THEN Thrown ELSE Results(call.data[1])
    IN  /\ call.route = "searchIngredients" /\ call.pc \in {"returned", "thrown"}
        /\ ret' = Return("searchIngredients", Len(call.attempts), 0, TRUE,
                         <<[apiKey |-> TRUE, attempts |-> call.attempts,
                            error |-> call.error]>> \o Caught(try, <<>>).out)
        /\ inFlight' = <<>>
        /\ StoreUnchanged
        /\ UNCHANGED now

CallSearchIngredientsRequest == \E apiKey \in BOOLEAN : CallSearchIngredients(apiKey)

StepSearchIngredients ==
    \E k \in 1..Len(inFlight) :
        \/ \E outcome \in AttemptOutcomes : Fetch(k, outcome)
        \/ Retry(k)
        \/ ReturnSearchIngredients(k)

NextRetry == CallSearchIngredientsRequest \/ StepSearchIngredients

\* every fetch settles (it is given a timeout) and every timer fires
SpecRetry == Init /\ [][NextRetry]_vars /\ WF_vars(StepSearchIngredients)

\* all attempts but the last have failed
FailedBefore(attempts) ==
    \A j \in 1..(Len(attempts) - 1) : ~Succeeds(attempts[j])

C30_Call(call) ==
    /\ Len(call.attempts) <= MAX_RETRIES + 1
    /\ FailedBefore(call.attempts)
    /\ call.pc \in {"fetch", "RETRY_DELAY"} =>
           /\ Len(call.attempts) = MAX_RETRIES - call.retries
                                     + (IF call.pc = "fetch" THEN 0 ELSE 1)
           /\ \A j \in 1..Len(call.attempts) : ~Succeeds(call.attempts[j])
    /\ call.pc = "returned" =>
           /\ call.attempts # <<>>
           /\ Succeeds(call.attempts[Len(call.attempts)])
           /\ call.data = Some(BodyOf(call.attempts[Len(call.attempts)]))
    /\ call.pc = "thrown" =>
           /\ Len(call.attempts) = MAX_RETRIES + 1
           /\ ~Succeeds(call.attempts[MAX_RETRIES + 1])
           /\ call.error = Some([attempt |-> MAX_RETRIES + 1,
                                 message |-> call.attempts[MAX_RETRIES + 1]])

C30_State == \A k \in 1..Len(inFlight) : C30_Call(inFlight[k])

C30_Step ==
    (ret'.op = "searchIngredients" /\ ret' # ret) =>
        LET call == ret'.out[1]
        IN  /\ ret'.ok
            /\ ~call.apiKey => (call.attempts = <<>> /\ Len(ret'.out) = 1)
            /\ call.error # Null => Len(ret'.out) = 1
            /\ Len(call.attempts) <= MAX_RETRIES + 1

\* C30: fetchWithRetry makes at most MAX_RETRIES + 1 = 4 fetch attempts and
\* then ends: it returns the body of the first attempt that succeeds and
\* makes no attempt after it; when all 4 attempts fail it throws the error
\* of the last one, and searchIngredients turns that into an empty list;
\* without an API key searchIngredients returns without any fetch.
C30_RetryEnds ==
    /\ [][C30_Step]_vars
    /\ []C30_State
    /\ (inFlight # <<>>) ~> (inFlight = <<>>)

\* the fourth attempt failed like the three before it and the caller got an
\* empty list
C30_Witness ==
    /\ ret.op = "searchIngredients"
    /\ Len(ret.out) = 1
    /\ ret.out[1].apiKey
    /\ Len(ret.out[1].attempts) = MAX_RETRIES + 1
    /\ ret.out[1].error = Some([attempt |-> 4, message |-> "HTTP error"])
    /\ ret.out[1].attempts[1] = "network error"

(***************************************************************************)
(* groupedItems of src/client/src/pages/shopping-list-page.tsx: a Map from *)
(* recipeId (number or null) to the items of that recipe, built from the   *)
(* list GET /api/shopping-list returns.  A key is Null or Some(k).         *)
(***************************************************************************)
\* shoppingList.forEach(item => ...): !recipeId holds for null and for 0
RECURSIVE GroupEach(_, _)
GroupEach(groupedMap, list) ==
    IF list = <<>> THEN groupedMap
    ELSE LET item == Head(list)
             recipeId == item.recipeId
         IN  IF recipeId = Null \/ recipeId = Some(0)
             THEN GroupEach(MapSet(groupedMap, Null,
                                   Append(MapGet(groupedMap, Null)[1], item)),
                            Tail(list))
             ELSE LET g == IF MapHas(groupedMap, recipeId) THEN groupedMap
                           ELSE MapSet(groupedMap, recipeId, <<>>)
                  IN  GroupEach(MapSet(g, recipeId,
                                       Append(MapGet(g, recipeId)[1], item)),
                                Tail(list))

groupedItems(shoppingList) == GroupEach(MapSet(<<>>, Null, <<>>), shoppingList)

(***************************************************************************)
(* Claims about the grouping of the shopping list                          *)
(***************************************************************************)
GroupsHolding(g, x) == {j \in 1..Len(g) : Occurrences(g[j].v, x) > 0}

\* the groups of a user's list hold every item of the list, each in one
\* group and as often as the list holds it, and nothing else
C11_Partitions ==
    \A u \in UserIds :
        LET list == getShoppingList(u)
            g == groupedItems(list)
        IN  /\ \A i \in 1..Len(list) :
                    /\ Cardinality(GroupsHolding(g, list[i])) = 1
                    /\ \A j \in GroupsHolding(g, list[i]) :
                           Occurrences(g[j].v, list[i]) = Occurrences(list, list[i])
            /\ \A j \in 1..Len(g) : \A k \in 1..Len(g[j].v) :
                    Occurrences(list, g[j].v[k]) > 0
            /\ \A j, k \in 1..Len(g) : g[j].k = g[k].k => j = k

\* the recipeId an insert was made with
AddedRecipeId(insertItem) ==
    IF "recipeId" \in DOMAIN insertItem THEN insertItem.recipeId ELSE Null

\* the keys of the groups of the owner's list that hold the item just added
KeysOfAdded(insertItem) ==
    LET g == groupedItems(ShoppingListOf(shoppingItems', insertItem.userId))
    IN  {g[j].k : j \in GroupsHolding(g, ret'.out[1])}

C11_AddedUnderItsKey ==
    \A i \in InsertItemsOfRecipes :
        addToShoppingList(i) => KeysOfAdded(i) = {AddedRecipeId(i)}

\* C11: grouping getShoppingList(u) by recipe partitions it: every item of u
\* is in exactly one group, an item added with recipeId null or omitted is
\* in the one uncategorized group, and an item added with recipeId k is in
\* the group keyed k.
C11_GroupedByRecipe == []C11_Partitions /\ [][C11_AddedUnderItsKey]_vars

====
